---- MODULE Spec2Model ----
(***************************************************************************)
(* Model of the context-free-grammar parser of grammar_parser              *)
(* (src/src/grammar_parser/cfgparser.py) and of the completion engine of   *)
(* its predecessor (src/src/nl_robot_console/cfgparser.py).                *)
(*                                                                         *)
(* Python str values are TLA+ strings; TLC evaluates Len, SubSeq and \o on *)
(* them, so text is handled character by character as the code does.       *)
(* Python indices are kept 0-based in every operator that mirrors a Python *)
(* function; only SubSeq is 1-based.                                       *)
(***************************************************************************)
EXTENDS Integers, Sequences, FiniteSets, TLC

VARIABLES
  impl,       \* the class of the parser object: which cfgparser.py it is from
  rules,      \* CFGParser.rules: the Rule objects in insertion order
  functions,  \* CFGParser.functions: function name -> callable (a behaviour)
  call,       \* the last operation invoked on the parser and its arguments
  result,     \* what that operation returned or raised
  heap,       \* the Tree objects of the calls made in steps, by address
  callers     \* the callers that share the parser: their call and its stack

vars == <<impl, rules, functions, call, result, heap, callers>>

----------------------------------------------------------------------------
(* Python primitives                                                       *)

\* Python's None where an int is expected (best_fail, the return of _parse)
None == -1

Min(S) == CHOOSE x \in S : \A y \in S : x <= y

Max(S) == CHOOSE x \in S : \A y \in S : x >= y

\* s[a:b] for 0 <= a
Slice(s, a, b) == SubSeq(s, a + 1, b)

\* s[a:]
SliceFrom(s, a) == SubSeq(s, a + 1, Len(s))

\* s[i], and "" where the index is outside the string
CharAt(s, i) == IF 0 <= i /\ i < Len(s) THEN SubSeq(s, i + 1, i + 1) ELSE ""

IsSpace(c) == c \in {" ", "\n", "\t"}

UpperCase ==
  {"A", "B", "C", "D", "E", "F", "G", "H", "I", "J", "K", "L", "M",
   "N", "O", "P", "Q", "R", "S", "T", "U", "V", "W", "X", "Y", "Z"}

\* c.isupper() for a one-character string
isupper(c) == c \in UpperCase

\* s.lstrip(): from the first character that is not white space on
lstrip(s) ==
  SliceFrom(s, Min({i \in 0..Len(s) : i = Len(s) \/ ~IsSpace(CharAt(s, i))}))

\* s.rstrip(): up to the last character that is not white space
rstrip(s) ==
  Slice(s, 0, Max({i \in 0..Len(s) : i = 0 \/ ~IsSpace(CharAt(s, i - 1))}))

\* s.strip()
strip(s) == rstrip(lstrip(s))

\* s.find(sub, start): the lowest index >= start where sub occurs, else -1
find(s, sub, start) ==
  LET hits == {i \in start..(Len(s) - Len(sub)) :
                 Slice(s, i, i + Len(sub)) = sub}
  IN IF hits = {} THEN -1 ELSE Min(hits)

\* s.split(sep) for a non-empty separator
RECURSIVE split(_, _)
split(s, sep) ==
  LET i == find(s, sep, 0)
  IN IF i < 0 THEN <<s>>
     ELSE <<Slice(s, 0, i)>> \o split(SliceFrom(s, i + Len(sep)), sep)

\* sep.join(parts)
RECURSIVE join(_, _)
join(sep, parts) ==
  IF Len(parts) = 0 THEN ""
  ELSE IF Len(parts) = 1 THEN parts[1]
  ELSE parts[1] \o sep \o join(sep, Tail(parts))

RECURSIVE interleave(_, _)
interleave(s, new) ==
  IF Len(s) = 0 THEN ""
  ELSE CharAt(s, 0) \o new \o interleave(SliceFrom(s, 1), new)

\* s.replace(old, new): every non-overlapping occurrence, left to right; an
\* empty old matches before every character and at the end
RECURSIVE replace(_, _, _)
replace(s, old, new) ==
  IF Len(old) = 0 THEN new \o interleave(s, new)
  ELSE LET i == find(s, old, 0)
       IN IF i < 0 THEN s
          ELSE Slice(s, 0, i) \o new
                 \o replace(SliceFrom(s, i + Len(old)), old, new)

\* s.replace(old, new, 1) for a non-empty old
replace_first(s, old, new) ==
  LET i == find(s, old, 0)
  IN IF i < 0 THEN s
     ELSE Slice(s, 0, i) \o new \o SliceFrom(s, i + Len(old))

----------------------------------------------------------------------------
(* Grammar symbol model                                                    *)

Conjunct(name, rsemantic, is_variable) ==
  [name |-> name, rsemantic |-> rsemantic, is_variable |-> is_variable]

Option(lsemantic, conjs) == [lsemantic |-> lsemantic, conjuncts |-> conjs]

Rule(lname, options) == [lname |-> lname, options |-> options]

\* name in self.rules
HasRule(rs, name) == \E i \in 1..Len(rs) : rs[i].lname = name

\* self.rules[name]
GetRule(rs, name) == rs[CHOOSE i \in 1..Len(rs) : rs[i].lname = name]

\* name in self.functions
HasFunction(fs, name) == \E i \in 1..Len(fs) : fs[i].name = name

\* self.functions[name]
GetFunction(fs, name) == fs[CHOOSE i \in 1..Len(fs) : fs[i].name = name].func

\* CFGParser.set_function
set_function(fs, name, func) ==
  IF HasFunction(fs, name)
  THEN [i \in 1..Len(fs) |->
          IF fs[i].name = name THEN [name |-> name, func |-> func] ELSE fs[i]]
  ELSE Append(fs, [name |-> name, func |-> func])

----------------------------------------------------------------------------
(* Grammar text loader                                                     *)

\* An outcome of a loader step: exc = "" when nothing was raised
Raised(exc, msg) == [exc |-> exc, msg |-> msg]

NoExc == Raised("", "")

\* the returned tuple (name, semantics, remaining_str), or the exception
Atom(err, name, sem, rest) ==
  [err |-> err, name |-> name, sem |-> sem, rest |-> rest]

\* parse_next_atom at c == "[" (index i), with j = s.find("]", i)
atom_bracket(s, i, j) ==
  IF j < 0 THEN Atom(Raised("Exception", ""), "", "", "")
  ELSE Atom(NoExc, Slice(s, 0, i), Slice(s, i + 1, j), strip(SliceFrom(s, j + 1)))

\* parse_next_atom at the first index i holding a space or a bracket
atom_at(s, i) ==
  IF CharAt(s, i) = " "
  THEN Atom(NoExc, Slice(s, 0, i), "", strip(SliceFrom(s, i)))
  ELSE atom_bracket(s, i, find(s, "]", i))

\* parse_next_atom after s = s.strip(); stops are the indices the loop
\* returns at
atom_scan(s, stops) ==
  IF stops = {} THEN Atom(NoExc, s, "", "") ELSE atom_at(s, Min(stops))

atom_stripped(s) ==
  atom_scan(s, {i \in 0..(Len(s) - 1) : CharAt(s, i) \in {" ", "["}})

parse_next_atom(s0) == atom_stripped(strip(s0))

RECURSIVE option_atoms(_, _)

\* one turn of the while loop of Option.from_cfg_def on the atom a
option_atom(a, conjs) ==
  IF a.err # NoExc THEN [err |-> a.err, conjuncts |-> conjs]
  ELSE IF Len(a.name) = 0
  THEN [err |-> Raised("IndexError", ""), conjuncts |-> conjs]
  ELSE option_atoms(a.rest,
         conjs \o <<Conjunct(a.name, a.sem, isupper(CharAt(a.name, 0)))>>)

\* the while loop of Option.from_cfg_def: the atoms of one alternative
option_atoms(opt_str, conjs) ==
  IF Len(opt_str) = 0 THEN [err |-> NoExc, conjuncts |-> conjs]
  ELSE option_atom(parse_next_atom(opt_str), conjs)

RECURSIVE option_list(_, _, _)

\* the yield of Option.from_cfg_def for the alternative read as r
option_yield(r, opt_strs, left_semantics, opts) ==
  IF r.err # NoExc THEN [err |-> r.err, options |-> opts]
  ELSE option_list(Tail(opt_strs), left_semantics,
                   opts \o <<Option(left_semantics, r.conjuncts)>>)

\* Option.from_cfg_def consumed by list(): one Option per '|'-separated part
option_list(opt_strs, left_semantics, opts) ==
  IF Len(opt_strs) = 0 THEN [err |-> NoExc, options |-> opts]
  ELSE option_yield(option_atoms(strip(Head(opt_strs)), <<>>),
                    opt_strs, left_semantics, opts)

Option_from_cfg_def(option_definition, left_semantics) ==
  option_list(split(option_definition, "|"), left_semantics, <<>>)

\* Rule.from_cfg_def once the options are read as o
rule_of(l, o) ==
  IF o.err # NoExc THEN [err |-> o.err, rule |-> Rule("", <<>>)]
  ELSE [err |-> NoExc, rule |-> Rule(l.name, o.options)]

\* Rule.from_cfg_def once the left-hand side is read as l
rule_options(tmp, l) ==
  IF l.err # NoExc THEN [err |-> l.err, rule |-> Rule("", <<>>)]
  ELSE rule_of(l, Option_from_cfg_def(tmp[2], l.sem))

\* a from_cfg_def that only asks for an arrow, and reads what stands between
\* the first arrow and the second
rule_split_lenient(tmp) ==
  IF Len(tmp) < 2
  THEN [err |-> Raised("Exception", "Invalid grammar"), rule |-> Rule("", <<>>)]
  ELSE rule_options(tmp, parse_next_atom(strip(tmp[1])))

\* Rule.from_cfg_def after tmp = s.split(" -> ")
rule_split(tmp) ==
  IF Len(tmp) # 2
  THEN [err |-> Raised("Exception", "Invalid grammar"), rule |-> Rule("", <<>>)]
  ELSE rule_options(tmp, parse_next_atom(strip(tmp[1])))

Rule_from_cfg_def(s) == rule_split(split(s, " -> "))

\* an add_rule that puts the rule read in the place of the one of its name
add_rule_replace(rs, r) ==
  IF r.err # NoExc THEN [err |-> r.err, rules |-> rs]
  ELSE IF HasRule(rs, r.rule.lname)
  THEN [err |-> NoExc,
        rules |-> [i \in 1..Len(rs) |->
                     IF rs[i].lname = r.rule.lname THEN r.rule ELSE rs[i]]]
  ELSE [err |-> NoExc, rules |-> Append(rs, r.rule)]

\* CFGParser.add_rule once the line is read as r
add_rule_merge(rs, r) ==
  IF r.err # NoExc THEN [err |-> r.err, rules |-> rs]
  ELSE IF HasRule(rs, r.rule.lname)
  THEN [err |-> NoExc,
        rules |-> [i \in 1..Len(rs) |->
                     IF rs[i].lname = r.rule.lname
                     THEN Rule(rs[i].lname, rs[i].options \o r.rule.options)
                     ELSE rs[i]]]
  ELSE [err |-> NoExc, rules |-> Append(rs, r.rule)]

\* CFGParser.add_rule on the rule table rs
add_rule(rs, s) == add_rule_merge(rs, Rule_from_cfg_def(s))

\* the atoms of the table in the order check_rules visits them
RECURSIVE flatten(_)
flatten(seqs) == IF Len(seqs) = 0 THEN <<>> ELSE Head(seqs) \o flatten(Tail(seqs))

AllConjuncts(rs) ==
  flatten([i \in 1..Len(rs) |->
             flatten([k \in 1..Len(rs[i].options) |-> rs[i].options[k].conjuncts])])

\* the assertion check_rules fails on at one atom, if any
check_conj(rs, fs, conj) ==
  IF conj.is_variable /\ ~HasRule(rs, conj.name)
  THEN Raised("AssertionError", "Rule '" \o conj.name \o "' is missing")
  ELSE IF CharAt(conj.name, 0) = "$" /\ ~HasFunction(fs, SliceFrom(conj.name, 1))
  THEN Raised("AssertionError",
              "Function '" \o SliceFrom(conj.name, 1) \o "' is missing")
  ELSE NoExc

\* check_rules over the atoms cs, from atom k on
RECURSIVE check_from(_, _, _, _)
check_from(rs, fs, cs, k) ==
  IF k > Len(cs) THEN NoExc
  ELSE IF check_conj(rs, fs, cs[k]).exc # "" THEN check_conj(rs, fs, cs[k])
  ELSE check_from(rs, fs, cs, k + 1)

check_rules(rs, fs) == check_from(rs, fs, AllConjuncts(rs), 1)

RECURSIVE load_lines(_, _)

\* the loop of fromstring after add_rule returned r
load_rest(r, lines) ==
  IF r.err # NoExc THEN r ELSE load_lines(r.rules, Tail(lines))

\* the body of the loop of fromstring on the stripped line
load_line(rs, line, lines) ==
  IF Len(line) = 0 \/ CharAt(line, 0) = "#"
  THEN load_lines(rs, Tail(lines))
  ELSE load_rest(add_rule(rs, line), lines)

\* the loop of fromstring over the lines
load_lines(rs, lines) ==
  IF Len(lines) = 0 THEN [err |-> NoExc, rules |-> rs]
  ELSE load_line(rs, strip(Head(lines)), lines)

\* CFGParser.fromstring once every line is loaded as r
fromstring_check(r, fs) ==
  IF r.err # NoExc THEN r
  ELSE [err |-> check_rules(r.rules, fs), rules |-> r.rules]

\* CFGParser.fromstring(s, parser) on a parser holding rs and fs
fromstring(rs, fs, s) ==
  fromstring_check(load_lines(rs, split(replace(s, ";", "\n"), "\n")), fs)

----------------------------------------------------------------------------
(* Parse nodes: Tree objects live in an arena, a Tree reference is an index *)
(* into it and 0 is Python's None                                           *)

NoTree == 0

\* a Tree with one slot, whatever the number of atoms
Tree_one_slot(option) ==
  [option |-> option, subtrees |-> <<NoTree>>, parent |-> NoTree,
   parent_tree_idx |-> 0]

\* Tree.__init__
Tree(option) ==
  [option |-> option,
   subtrees |-> [i \in 1..Len(option.conjuncts) |-> NoTree],
   parent |-> NoTree,
   parent_tree_idx |-> 0]

RECURSIVE Tree_next(_, _, _)

\* Tree.next that stops at the end of its own alternative instead of going on
\* in the parent
Tree_next_no_parent(trees, tree, idx) ==
  IF idx + 1 < Len(trees[tree].option.conjuncts) THEN <<tree, idx + 1>>
  ELSE <<NoTree, 0>>

\* Tree.next, returning <<tree, idx>>
Tree_next(trees, tree, idx) ==
  CASE idx + 1 < Len(trees[tree].option.conjuncts) -> <<tree, idx + 1>>
    [] idx + 1 >= Len(trees[tree].option.conjuncts)
         /\ trees[tree].parent # NoTree ->
           Tree_next(trees, trees[tree].parent, trees[tree].parent_tree_idx)
    [] idx + 1 >= Len(trees[tree].option.conjuncts)
         /\ trees[tree].parent = NoTree -> <<NoTree, 0>>

\* an add_subtree that leaves a slot that is already filled as it is
add_subtree_keep_first(trees, tree, idx, option) ==
  LET sub == [Tree(option) EXCEPT !.parent = tree, !.parent_tree_idx = idx]
  IN Append(IF trees[tree].subtrees[idx + 1] = NoTree
            THEN [trees EXCEPT ![tree].subtrees[idx + 1] = Len(trees) + 1]
            ELSE trees, sub)

\* tree.add_subtree(idx, Tree(option)): the new Tree is the last of the arena
add_subtree(trees, tree, idx, option) ==
  LET sub == [Tree(option) EXCEPT !.parent = tree, !.parent_tree_idx = idx]
  IN Append([trees EXCEPT ![tree].subtrees[idx + 1] = Len(trees) + 1], sub)

----------------------------------------------------------------------------
(* Dynamic expansion functions: a registered callable is one of a few      *)
(* behaviours, each mapping the remaining words to a list of Options        *)

FuncBehaviours == {"word", "nothing", "dangling"}

ApplyFunction(func, words) ==
  IF func = "word"
  THEN [i \in 1..(IF Len(words) > 0 THEN 1 ELSE 0) |->
          Option("\"w\"", <<Conjunct(words[1], "", FALSE)>>)]
  ELSE IF func = "dangling"
  THEN <<Option("\"d\"", <<Conjunct("a", "", FALSE)>>),
         Option("Z", <<Conjunct("MISSING", "Z", TRUE)>>)>>
  ELSE <<>>

----------------------------------------------------------------------------
(* Match engine                                                            *)

\* the interpreter's recursion limit, counted in nested _parse / _next_word
\* frames (sys.getrecursionlimit(), scaled to the size of the inputs)
RecursionLimit == 14

\* The outcome of _parse: exc is the exception raised ("" if none), ret the
\* returned value (None or the failing index), trees the arena afterwards and
\* fails the history of the indices at which a branch gave up
Outcome(exc, ret, trees, fails) ==
  [exc |-> exc, ret |-> ret, trees |-> trees, fails |-> fails]

\* a variant that remembers the failure of the last candidate tried
last_fail(best_fail, ret) == ret

\* "if best_fail is None or best_fail < ret: best_fail = ret"
better_fail(best_fail, ret) ==
  IF best_fail = None \/ best_fail < ret THEN ret ELSE best_fail

RECURSIVE _parse(_, _, _, _, _, _, _, _)

RECURSIVE parse_options(_, _, _, _, _, _, _, _, _, _)

\* a loop that takes a candidate that raised GrammarError for one that failed
\* to match at word_index, and goes on with the next candidate
parse_options_forgiving(self, tree, idx, options, k, best_fail, r, words, word_index, depth) ==
  CASE r.exc = "" /\ r.ret = None -> r
    [] r.exc \notin {"", "GrammarError"} -> r
    [] (r.exc = "GrammarError" \/ r.ret # None) /\ k >= Len(options) ->
         Outcome("", better_fail(best_fail,
                                 IF r.exc = "" THEN r.ret ELSE word_index),
                 r.trees, r.fails)
    [] (r.exc = "GrammarError" \/ r.ret # None) /\ k < Len(options) ->
         parse_options(self, tree, idx, options, k + 1,
                       better_fail(best_fail,
                                   IF r.exc = "" THEN r.ret ELSE word_index),
                       _parse(self, add_subtree(r.trees, tree, idx, options[k + 1]),
                              r.fails, Len(r.trees) + 1, 0, words, word_index,
                              depth + 1),
                       words, word_index, depth)

\* the loop of _parse over the candidate options, once candidate k returned
\* r (an exception leaves _parse at once, with ret = None)
parse_options(self, tree, idx, options, k, best_fail, r, words, word_index, depth) ==
  CASE r.ret = None -> r
    [] r.ret # None /\ k >= Len(options) ->
         Outcome("", better_fail(best_fail, r.ret), r.trees, r.fails)
    [] r.ret # None /\ k < Len(options) ->
         parse_options(self, tree, idx, options, k + 1,
                       better_fail(best_fail, r.ret),
                       _parse(self, add_subtree(r.trees, tree, idx, options[k + 1]),
                              r.fails, Len(r.trees) + 1, 0, words, word_index,
                              depth + 1),
                       words, word_index, depth)

\* CFGParser._parse((tree, idx), words, word_index), depth frames deep
_parse(self, trees, fails, tree, idx, words, word_index, depth) ==
  LET conjuncts == IF tree = NoTree THEN <<>> ELSE trees[tree].option.conjuncts
      conj == conjuncts[idx + 1]
      func_name == SliceFrom(conj.name, 1)
      next == Tree_next(trees, tree, idx)
      deep == depth > RecursionLimit
      no_tree == ~deep /\ tree = NoTree
      at_end == ~deep /\ tree # NoTree /\ Len(conjuncts) = idx
      at_conj == ~deep /\ tree # NoTree /\ Len(conjuncts) # idx
      is_rule == at_conj /\ conj.is_variable
      is_atom == at_conj /\ ~conj.is_variable
      is_func == is_atom /\ CharAt(conj.name, 0) = "$"
      is_word == is_atom /\ Len(conj.name) > 0 /\ CharAt(conj.name, 0) # "$"
      expands == \/ is_rule /\ HasRule(self.rules, conj.name)
                 \/ is_func /\ HasFunction(self.functions, func_name)
      options == IF conj.is_variable
                 THEN GetRule(self.rules, conj.name).options
                 ELSE ApplyFunction(GetFunction(self.functions, func_name),
                                    SliceFrom(words, word_index))
      fail == Outcome("", word_index, trees, Append(fails, word_index))
  IN CASE deep -> Outcome("RecursionError", None, trees, fails)
       [] no_tree /\ Len(words) = word_index -> Outcome("", None, trees, fails)
       [] no_tree /\ Len(words) # word_index -> fail
       [] at_end ->
            _parse(self, trees, fails, next[1], next[2], words, word_index,
                   depth + 1)
       [] is_rule /\ ~HasRule(self.rules, conj.name) ->
            Outcome("GrammarError", None, trees, fails)
       [] is_atom /\ Len(conj.name) = 0 ->
            Outcome("IndexError", None, trees, fails)
       [] is_func /\ ~HasFunction(self.functions, func_name) ->
            Outcome("GrammarError", None, trees, fails)
       [] expands /\ Len(options) = 0 ->
            Outcome("AssertionError", None, trees, fails)
       [] expands /\ Len(options) > 0 ->
            parse_options(self, tree, idx, options, 1, None,
                          _parse(self, add_subtree(trees, tree, idx, options[1]),
                                 fails, Len(trees) + 1, 0, words, word_index,
                                 depth + 1),
                          words, word_index, depth)
       [] is_word /\ word_index >= Len(words) -> fail
       [] is_word /\ word_index < Len(words)
            /\ conj.name = words[word_index + 1] ->
            _parse(self, trees, fails, next[1], next[2], words, word_index + 1,
                   depth + 1)
       [] is_word /\ word_index < Len(words)
            /\ conj.name # words[word_index + 1] -> fail

----------------------------------------------------------------------------
(* Semantics extractor                                                     *)

RECURSIVE get_semantics(_, _)
RECURSIVE semantics_loop(_, _, _, _)

\* CFGParser.get_semantics
get_semantics(trees, tree) ==
  semantics_loop(trees, tree, 0, trees[tree].option.lsemantic)

\* the loop of get_semantics over the subtrees, from slot i on
semantics_loop(trees, tree, i, semantics) ==
  IF i >= Len(trees[tree].subtrees) THEN semantics
  ELSE LET conj == trees[tree].option.conjuncts[i + 1]
           subtree == trees[tree].subtrees[i + 1]
       IN IF subtree # NoTree
          THEN semantics_loop(trees, tree, i + 1,
                 replace(semantics, conj.rsemantic, get_semantics(trees, subtree)))
          ELSE semantics_loop(trees, tree, i + 1, semantics)

\* A Python value returned to the caller: None, False, a str, a dict with
\* one string entry, the empty dict, or ("other") the decoding of a text
\* outside the subset of YAML that is interpreted here
PyValue(type, key, str) == [type |-> type, key |-> key, str |-> str]

PyNone == PyValue("None", "", "")

PyFalse == PyValue("False", "", "")

EmptyDict == PyValue("dict", "", "")

Letters ==
  UpperCase \cup
  {"a", "b", "c", "d", "e", "f", "g", "h", "i", "j", "k", "l", "m",
   "n", "o", "p", "q", "r", "s", "t", "u", "v", "w", "x", "y", "z"}

\* plain scalars that YAML 1.1 resolves to a bool or to null
YamlKeywords ==
  {"yes", "Yes", "YES", "no", "No", "NO", "true", "True", "TRUE",
   "false", "False", "FALSE", "on", "On", "ON", "off", "Off", "OFF",
   "null", "Null", "NULL"}

\* text is "..." with no quote or escape inside
IsQuoted(text) ==
  /\ Len(text) >= 2
  /\ CharAt(text, 0) = "\"" /\ CharAt(text, Len(text) - 1) = "\""
  /\ \A i \in 1..(Len(text) - 2) : CharAt(text, i) \notin {"\"", "\\"}

Unquote(text) == Slice(text, 1, Len(text) - 1)

\* yaml.safe_load on the flow-style texts the grammars here produce
yaml_safe_load(text) ==
  LET inner == Slice(text, 1, Len(text) - 1)
      colon == find(inner, ":", 0)
      k == Slice(inner, 0, colon)
      v == SliceFrom(inner, colon + 1)
  IN IF Len(text) = 0 THEN PyNone
     ELSE IF IsQuoted(text) THEN PyValue("str", "", Unquote(text))
     ELSE IF (\A i \in 0..(Len(text) - 1) : CharAt(text, i) \in Letters)
             /\ text \notin YamlKeywords
     THEN PyValue("str", "", text)
     ELSE IF Len(text) >= 2 /\ CharAt(text, 0) = "{"
             /\ CharAt(text, Len(text) - 1) = "}"
             /\ colon >= 0 /\ IsQuoted(k) /\ IsQuoted(v)
     THEN PyValue("dict", Unquote(k), Unquote(v))
     ELSE PyValue("other", "", text)

----------------------------------------------------------------------------
(* parse_raw and parse                                                     *)

\* the words argument: a str or a list of str
Str(text) == [is_str |-> TRUE, text |-> text, list |-> <<>>]

List(words) == [is_str |-> FALSE, text |-> "", list |-> words]

\* a ParseError with one message for every index
ParseError_one_message(words, word_index) ==
  [msg |-> "failed to match", word_index |-> word_index,
   word |-> IF 0 <= word_index /\ word_index < Len(words)
            THEN words[word_index + 1] ELSE ""]

\* ParseError.__init__: which of the two messages is built
ParseError(words, word_index) ==
  IF word_index < 0 \/ word_index >= Len(words)
  THEN [msg |-> "is missing", word_index |-> word_index, word |-> ""]
  ELSE [msg |-> "failed to match", word_index |-> word_index,
        word |-> words[word_index + 1]]

NoError == [msg |-> "", word_index |-> None, word |-> ""]

\* What a call returned (exc = "") or raised, and the Trees it allocated:
\* root is the Tree of the alternative that matched, if any
Result(exc, value, error, trees, root, fails) ==
  [exc |-> exc, value |-> value, error |-> error,
   trees |-> trees, root |-> root, fails |-> fails]

\* the loop of parse_raw over the alternatives of the target, once _parse
\* returned ret for alternative k, whose Tree is tree
RECURSIVE parse_raw_loop(_, _, _, _, _, _, _)
parse_raw_loop(self, options, k, best_fail, tree, ret, words) ==
  CASE ret.exc # "" ->
         Result(ret.exc, PyNone, NoError, ret.trees, NoTree, ret.fails)
    [] ret.exc = "" /\ ret.ret = None ->
         Result("",
                yaml_safe_load(replace(replace(get_semantics(ret.trees, tree),
                                               "<", "["), ">", "]")),
                NoError, ret.trees, tree, ret.fails)
    [] ret.exc = "" /\ ret.ret # None /\ k >= Len(options) ->
         Result("ParseError", PyNone,
                ParseError(words, better_fail(best_fail, ret.ret)),
                ret.trees, NoTree, ret.fails)
    [] ret.exc = "" /\ ret.ret # None /\ k < Len(options) ->
         parse_raw_loop(self, options, k + 1, better_fail(best_fail, ret.ret),
                        Len(ret.trees) + 1,
                        _parse(self, Append(ret.trees, Tree(options[k + 1])),
                               ret.fails, Len(ret.trees) + 1, 0, words, 0, 1),
                        words)

\* a parse_raw that tries the alternatives of the target from the last to the
\* first
parse_raw_words_backwards(self, options, words) ==
  LET rev == [k \in 1..Len(options) |-> options[Len(options) + 1 - k]]
  IN IF Len(options) = 0
     THEN Result("AssertionError", PyNone, NoError, <<>>, NoTree, <<>>)
     ELSE parse_raw_loop(self, rev, 1, None, 1,
                         _parse(self, <<Tree(rev[1])>>, <<>>, 1, 0, words, 0, 1),
                         words)

\* parse_raw once words is a list and the target is known to have options
parse_raw_words(self, options, words) ==
  IF Len(options) = 0
  THEN Result("AssertionError", PyNone, NoError, <<>>, NoTree, <<>>)
  ELSE parse_raw_loop(self, options, 1, None, 1,
                      _parse(self, <<Tree(options[1])>>, <<>>, 1, 0, words, 0, 1),
                      words)

\* CFGParser.parse_raw(target, words)
parse_raw(self, target, words0) ==
  IF ~HasRule(self.rules, target)
  THEN Result("Exception", PyNone, NoError, <<>>, NoTree, <<>>)
  ELSE parse_raw_words(self, GetRule(self.rules, target).options,
                       IF words0.is_str THEN split(words0.text, " ")
                       ELSE words0.list)

\* the try/except of CFGParser.parse around the outcome r of parse_raw
parse_except(r) ==
  IF r.exc \in {"GrammarError", "ParseError"}
  THEN Result("", EmptyDict, NoError, r.trees, NoTree, r.fails)
  ELSE r

\* CFGParser.parse(target, words)
parse(self, target, words0) == parse_except(parse_raw(self, target, words0))

----------------------------------------------------------------------------
(* Completion engine (grammar_parser)                                      *)

\* The outcome of _next_word: the exception raised ("" if none), the list
\* returned, whether False was returned instead of a list, and the arena
Completion(exc, next_words, is_false, trees) ==
  [exc |-> exc, next_words |-> next_words, is_false |-> is_false, trees |-> trees]

RECURSIVE _next_word(_, _, _, _, _, _)

\* the loop of _next_word over the candidate options, once candidate k
\* returned r: "next_words += r"
RECURSIVE next_word_options(_, _, _, _, _, _, _, _, _)
next_word_options(self, tree, idx, options, k, next_words, r, words, depth) ==
  CASE r.exc # "" -> r
    [] r.exc = "" /\ k >= Len(options) ->
         Completion("", next_words \o r.next_words, FALSE, r.trees)
    [] r.exc = "" /\ k < Len(options) ->
         next_word_options(self, tree, idx, options, k + 1,
                           next_words \o r.next_words,
                           _next_word(self,
                                      add_subtree(r.trees, tree, idx, options[k + 1]),
                                      Len(r.trees) + 1, 0, words, depth + 1),
                           words, depth)

\* CFGParser._next_word((tree, idx), words), depth frames deep
_next_word(self, trees, tree, idx, words, depth) ==
  LET conjuncts == IF tree = NoTree THEN <<>> ELSE trees[tree].option.conjuncts
      conj == conjuncts[idx + 1]
      func_name == SliceFrom(conj.name, 1)
      next == Tree_next(trees, tree, idx)
      deep == depth > RecursionLimit
      at_conj == ~deep /\ tree # NoTree /\ idx < Len(conjuncts)
      is_rule == at_conj /\ conj.is_variable
      is_atom == at_conj /\ ~conj.is_variable
      is_func == is_atom /\ CharAt(conj.name, 0) = "$"
      is_word == is_atom /\ Len(conj.name) > 0 /\ CharAt(conj.name, 0) # "$"
      expands == \/ is_rule /\ HasRule(self.rules, conj.name)
                 \/ is_func /\ HasFunction(self.functions, func_name)
      options == IF conj.is_variable
                 THEN GetRule(self.rules, conj.name).options
                 ELSE ApplyFunction(GetFunction(self.functions, func_name), words)
  IN CASE deep -> Completion("RecursionError", <<>>, FALSE, trees)
       [] ~deep /\ tree = NoTree -> Completion("", <<>>, FALSE, trees)
       [] ~deep /\ tree # NoTree /\ idx >= Len(conjuncts) ->
            Completion("IndexError", <<>>, FALSE, trees)
       [] is_rule /\ ~HasRule(self.rules, conj.name) ->
            Completion("", <<>>, FALSE, trees)
       [] is_atom /\ Len(conj.name) = 0 ->
            Completion("IndexError", <<>>, FALSE, trees)
       [] is_func /\ ~HasFunction(self.functions, func_name) ->
            Completion("", <<>>, FALSE, trees)
       [] expands /\ Len(options) = 0 -> Completion("", <<>>, FALSE, trees)
       [] expands /\ Len(options) > 0 ->
            next_word_options(self, tree, idx, options, 1, <<>>,
                              _next_word(self,
                                         add_subtree(trees, tree, idx, options[1]),
                                         Len(trees) + 1, 0, words, depth + 1),
                              words, depth)
       [] is_word /\ Len(words) = 0 -> Completion("", <<conj.name>>, FALSE, trees)
       [] is_word /\ Len(words) > 0 /\ conj.name = words[1] ->
            _next_word(self, trees, next[1], next[2], Tail(words), depth + 1)
       [] is_word /\ Len(words) > 0 /\ conj.name # words[1] ->
            Completion("", <<>>, FALSE, trees)

\* the loop of next_word over the alternatives of the target, once
\* alternative k returned r
RECURSIVE next_word_loop(_, _, _, _, _, _)
next_word_loop(self, options, k, next_words, r, words) ==
  CASE r.exc # "" -> r
    [] r.exc = "" /\ k >= Len(options) ->
         Completion("", next_words \o r.next_words, FALSE, r.trees)
    [] r.exc = "" /\ k < Len(options) ->
         next_word_loop(self, options, k + 1, next_words \o r.next_words,
                        _next_word(self, Append(r.trees, Tree(options[k + 1])),
                                   Len(r.trees) + 1, 0, words, 1),
                        words)

\* a next_word that completes the first alternative of the target only
next_word_first_alternative(self, options, words) ==
  IF Len(options) = 0 THEN Completion("", <<>>, FALSE, <<>>)
  ELSE _next_word(self, <<Tree(options[1])>>, 1, 0, words, 1)

\* next_word once the target is known to have options
next_word_target(self, options, words) ==
  IF Len(options) = 0 THEN Completion("", <<>>, FALSE, <<>>)
  ELSE next_word_loop(self, options, 1, <<>>,
                      _next_word(self, <<Tree(options[1])>>, 1, 0, words, 1),
                      words)

\* CFGParser.next_word(target, words)
next_word(self, target, words) ==
  IF ~HasRule(self.rules, target) THEN Completion("", <<>>, FALSE, <<>>)
  ELSE next_word_target(self, GetRule(self.rules, target).options, words)

----------------------------------------------------------------------------
(* Completion engine (nl_robot_console)                                    *)

RECURSIVE nl__next_word(_, _, _, _, _, _)

\* the loop of _next_word over the candidate options, once candidate k
\* returned r: "next_words += r", and += False raises
RECURSIVE nl_next_word_options(_, _, _, _, _, _, _, _, _)
nl_next_word_options(self, T, idx, options, k, next_words, r, words, depth) ==
  CASE r.exc # "" -> r
    [] r.exc = "" /\ r.is_false ->
         Completion("TypeError", <<>>, FALSE, r.trees)
    [] r.exc = "" /\ ~r.is_false /\ k >= Len(options) ->
         Completion("", next_words \o r.next_words, FALSE, r.trees)
    [] r.exc = "" /\ ~r.is_false /\ k < Len(options) ->
         nl_next_word_options(self, T, idx, options, k + 1,
                           next_words \o r.next_words,
                           nl__next_word(self,
                                      add_subtree(r.trees, T, idx, options[k + 1]),
                                      Len(r.trees) + 1, 0, words, depth + 1),
                           words, depth)

\* nl_robot_console CFGParser._next_word((T, idx), words), depth frames deep
nl__next_word(self, trees, T, idx, words, depth) ==
  LET conjuncts == IF T = NoTree THEN <<>> ELSE trees[T].option.conjuncts
      conj == conjuncts[idx + 1]
      func_name == SliceFrom(conj.name, 1)
      next == Tree_next(trees, T, idx)
      deep == depth > RecursionLimit
      at_conj == ~deep /\ T # NoTree /\ idx < Len(conjuncts)
      is_rule == at_conj /\ conj.is_variable
      is_atom == at_conj /\ ~conj.is_variable
      is_func == is_atom /\ CharAt(conj.name, 0) = "$"
      is_word == is_atom /\ Len(conj.name) > 0 /\ CharAt(conj.name, 0) # "$"
      expands == \/ is_rule /\ HasRule(self.rules, conj.name)
                 \/ is_func /\ HasFunction(self.functions, func_name)
      options == IF conj.is_variable
                 THEN GetRule(self.rules, conj.name).options
                 ELSE ApplyFunction(GetFunction(self.functions, func_name), words)
  IN CASE deep -> Completion("RecursionError", <<>>, FALSE, trees)
       [] ~deep /\ T = NoTree -> Completion("", <<>>, FALSE, trees)
       [] ~deep /\ T # NoTree /\ idx >= Len(conjuncts) ->
            Completion("IndexError", <<>>, FALSE, trees)
       [] is_rule /\ ~HasRule(self.rules, conj.name) ->
            Completion("", <<>>, FALSE, trees)
       [] is_atom /\ Len(conj.name) = 0 ->
            Completion("IndexError", <<>>, FALSE, trees)
       [] is_func /\ ~HasFunction(self.functions, func_name) ->
            Completion("", <<>>, TRUE, trees)
       [] expands /\ Len(options) = 0 -> Completion("", <<>>, FALSE, trees)
       [] expands /\ Len(options) > 0 ->
            nl_next_word_options(self, T, idx, options, 1, <<>>,
                              nl__next_word(self,
                                         add_subtree(trees, T, idx, options[1]),
                                         Len(trees) + 1, 0, words, depth + 1),
                              words, depth)
       [] is_word /\ words = <<>> -> Completion("", <<conj.name>>, FALSE, trees)
       [] is_word /\ Len(words) > 0 /\ conj.name = words[1] ->
            nl__next_word(self, trees, next[1], next[2], Tail(words), depth + 1)
       [] is_word /\ Len(words) > 0 /\ conj.name # words[1] ->
            Completion("", <<>>, FALSE, trees)

\* the loop of next_word over the alternatives of the target, once
\* alternative k returned r
RECURSIVE nl_next_word_loop(_, _, _, _, _, _)
nl_next_word_loop(self, options, k, next_words, r, words) ==
  CASE r.exc # "" -> r
    [] r.exc = "" /\ r.is_false ->
         Completion("TypeError", <<>>, FALSE, r.trees)
    [] r.exc = "" /\ ~r.is_false /\ k >= Len(options) ->
         Completion("", next_words \o r.next_words, FALSE, r.trees)
    [] r.exc = "" /\ ~r.is_false /\ k < Len(options) ->
         nl_next_word_loop(self, options, k + 1, next_words \o r.next_words,
                        nl__next_word(self, Append(r.trees, Tree(options[k + 1])),
                                   Len(r.trees) + 1, 0, words, 1),
                        words)

\* next_word once the target is known to have options
nl_next_word_target(self, options, words) ==
  IF Len(options) = 0 THEN Completion("", <<>>, FALSE, <<>>)
  ELSE nl_next_word_loop(self, options, 1, <<>>,
                      nl__next_word(self, <<Tree(options[1])>>, 1, 0, words, 1),
                      words)

\* nl_robot_console CFGParser.next_word(target, words)
nl_next_word(self, target, words) ==
  IF ~HasRule(self.rules, target) THEN Completion("", <<>>, TRUE, <<>>)
  ELSE nl_next_word_target(self, GetRule(self.rules, target).options, words)

----------------------------------------------------------------------------
(* Sentence generator                                                      *)

RECURSIVE get_unwrapped(_, _, _)

\* the two loops of get_unwrapped, at atom i of alternative k: opt_strings
\* and conj_strings are the lists built so far
RECURSIVE unwrap(_, _, _, _, _, _, _)
unwrap(self, options, k, i, opt_strings, conj_strings, depth) ==
  LET out == k > Len(options)
      conjs == options[k].conjuncts
      at_conj == ~out /\ i <= Len(conjs)
      conj == conjs[i]
      unwrapped_string == get_unwrapped(self, conj.name, depth + 1)
      s == join("|", opt_strings)
  IN CASE out ->
            [exc |-> "",
             s |-> IF Len(opt_strings) > 1 THEN "(" \o s \o ")" ELSE s]
       [] ~out /\ i > Len(conjs) ->
            unwrap(self, options, k + 1, 1,
                   Append(opt_strings, join(" ", conj_strings)), <<>>, depth)
       [] at_conj /\ ~conj.is_variable ->
            unwrap(self, options, k, i + 1, opt_strings,
                   Append(conj_strings, conj.name), depth)
       [] at_conj /\ conj.is_variable /\ unwrapped_string.exc # "" ->
            unwrapped_string
       [] at_conj /\ conj.is_variable /\ unwrapped_string.exc = "" ->
            unwrap(self, options, k, i + 1, opt_strings,
                   IF Len(unwrapped_string.s) > 0
                   THEN Append(conj_strings, unwrapped_string.s)
                   ELSE conj_strings,
                   depth)

\* CFGParser.get_unwrapped(lname), depth frames deep: [exc, s]
get_unwrapped(self, lname, depth) ==
  CASE depth > RecursionLimit -> [exc |-> "RecursionError", s |-> ""]
    [] depth <= RecursionLimit /\ ~HasRule(self.rules, lname) ->
         [exc |-> "Exception", s |-> ""]
    [] depth <= RecursionLimit /\ HasRule(self.rules, lname) ->
         unwrap(self, GetRule(self.rules, lname).options, 1, 1, <<>>, <<>>, depth)

\* the length of the longest run of characters outside stop from index i on
run_length(s, i, stop) ==
  Min({j \in i..Max({i, Len(s)}) : j >= Len(s) \/ CharAt(s, j) \in stop}) - i

\* the end (exclusive) of the match of \([^()]+\) that starts at i, or -1
group_end(s, i) ==
  LET n == run_length(s, i + 1, {"(", ")"})
  IN IF CharAt(s, i) = "(" /\ n > 0 /\ CharAt(s, i + 1 + n) = ")"
     THEN i + n + 2
     ELSE -1

\* re.findall("\([^()]+\)", s) from position pos on
RECURSIVE re_findall_groups(_, _)
re_findall_groups(s, pos) ==
  LET starts == {i \in pos..(Len(s) - 1) : group_end(s, i) >= 0}
      i == Min(starts)
  IN IF starts = {} THEN <<>>
     ELSE <<Slice(s, i, group_end(s, i))>> \o re_findall_groups(s, group_end(s, i))

\* re.search("\([^)]+\)", s) finds a match
re_search_group(s) ==
  \E i \in 0..(Len(s) - 1) :
    LET n == run_length(s, i + 1, {")"})
    IN CharAt(s, i) = "(" /\ n > 0 /\ CharAt(s, i + 1 + n) = ")"

\* what random.choice can return for option[1:-1].split("|")
Choices(option) ==
  LET parts == split(Slice(option, 1, Len(option) - 1), "|")
  IN {parts[i] : i \in 1..Len(parts)}

\* the for loop of get_random_sentence: every spec it can end with
RECURSIVE replace_groups(_, _, _)
replace_groups(spec, options, k) ==
  IF k > Len(options) THEN {spec}
  ELSE UNION {replace_groups(replace_first(spec, options[k], c), options, k + 1) :
                c \in Choices(options[k])}

\* the while loop of get_random_sentence: every sentence it can return; a
\* search that matches with nothing for findall to replace never ends
RECURSIVE random_sentences(_)
random_sentences(spec) ==
  IF ~re_search_group(spec) THEN {[exc |-> "", sentence |-> spec]}
  ELSE IF re_findall_groups(spec, 0) = <<>>
  THEN {[exc |-> "NonTermination", sentence |-> spec]}
  ELSE UNION {random_sentences(s2) :
                s2 \in replace_groups(spec, re_findall_groups(spec, 0), 1)}

\* get_random_sentence once get_unwrapped returned u
random_of(u) ==
  IF u.exc # "" THEN {[exc |-> u.exc, sentence |-> ""]}
  ELSE random_sentences("(" \o u.s \o ")")

\* CFGParser.get_random_sentence(lname): the set of its possible outcomes
get_random_sentence(self, lname) == random_of(get_unwrapped(self, lname, 1))

----------------------------------------------------------------------------
(* Calls in steps.  Several callers share one parser object; each runs     *)
(* parse_raw or next_word on a Python stack of its own, one activation of   *)
(* _parse or _next_word per frame, and the Tree objects of all of them      *)
(* live in one address space.  A step runs the top activation of one        *)
(* caller up to its next call, return or raise.                             *)

\* the callers that share the parser object
Callers == {1, 2}

\* An activation of fn: pc is "enter" before its first statement, "loop"
\* while a candidate of its for loop is being tried and "tail" while the
\* call whose value it returns is running; the other fields are its locals
Frame(fn, pc, tree, idx, words, word_index) ==
  [fn |-> fn, pc |-> pc, tree |-> tree, idx |-> idx, words |-> words,
   word_index |-> word_index, options |-> <<>>, k |-> 0, best_fail |-> None,
   next_words |-> <<>>]

\* how a call ended: the exception raised ("" if none), the value parse_raw
\* returned, the ParseError it raised, the list next_word returned and the
\* Tree of the alternative that matched
Ended(exc, value, error, next_words, root) ==
  [exc |-> exc, value |-> value, error |-> error, next_words |-> next_words,
   root |-> root]

\* The caller t: status is "idle", "running" or "done"; ret (an index or
\* None) and ret_words (a list) hold the value the activation that just
\* returned hands to the one below it; made is the set of the Trees its call
\* constructed
Caller(t, status, op, target, words, stack) ==
  [t |-> t, status |-> status, op |-> op, target |-> target, words |-> words,
   stack |-> stack, has_ret |-> FALSE, ret |-> None, ret_words |-> <<>>,
   outcome |-> Ended("", PyNone, NoError, <<>>, NoTree), made |-> {}]

NoCaller(t) == Caller(t, "idle", "", "", List(<<>>), <<>>)

\* the objects a step can read and write: the parser and the Trees
Objects(self, hp) == [self |-> self, heap |-> hp]

\* the effect of a step on the objects and on the caller that took it
Stepped(obj, c) == [obj |-> obj, c |-> c]

\* an allocator that numbers a new Tree after the count of the live ones
alloc_count(hp, c) == Cardinality(DOMAIN hp) + 1

\* The identity of the next Tree the call of c constructs.  A new object
\* has an identity that no live object has, and which one it is cannot be
\* observed: it is the first free one of those set aside for the caller
alloc(hp, c) ==
  Min({Cardinality(Callers) * n + c.t : n \in 0..Cardinality(DOMAIN hp)} \ DOMAIN hp)

\* the Trees that the Trees of S refer to, directly or not, and S itself
RECURSIVE Reachable(_, _)
Reachable(hp, S) ==
  LET N == (S \cup {hp[a].parent : a \in S}
              \cup UNION {{hp[a].subtrees[i] : i \in DOMAIN hp[a].subtrees} : a \in S})
             \cap DOMAIN hp
  IN IF N = S THEN S ELSE Reachable(hp, N)

\* the Trees the locals of the activations of c, or its result, refer to
Held(hp, c) ==
  ({c.stack[i].tree : i \in 1..Len(c.stack)} \cup {c.outcome.root}) \cap DOMAIN hp

\* Tree(option), a root, constructed as a
new_tree(obj, a, option) == [obj EXCEPT !.heap = @ @@ (a :> Tree(option))]

\* an add_subtree that hangs the new Tree under the first live Tree of the
\* same alternative, as a parser that keeps one Tree per Option would
heap_add_subtree_pooled(obj, a, tree, idx, option) ==
  LET p == Min({q \in DOMAIN obj.heap : obj.heap[q].option = obj.heap[tree].option})
  IN [obj EXCEPT !.heap =
        [@ EXCEPT ![p].subtrees[idx + 1] = a]
          @@ (a :> [Tree(option) EXCEPT !.parent = p, !.parent_tree_idx = idx])]

\* tree.add_subtree(idx, Tree(option)) among the objects, the new Tree
\* constructed as a
heap_add_subtree(obj, a, tree, idx, option) ==
  [obj EXCEPT !.heap =
     [@ EXCEPT ![tree].subtrees[idx + 1] = a]
       @@ (a :> [Tree(option) EXCEPT !.parent = tree, !.parent_tree_idx = idx])]

\* "return v" / "return words" in the top activation
return_index(c, v) ==
  [c EXCEPT !.stack = SubSeq(@, 1, Len(@) - 1), !.has_ret = TRUE, !.ret = v]

return_words(c, ws) ==
  [c EXCEPT !.stack = SubSeq(@, 1, Len(@) - 1), !.has_ret = TRUE,
            !.ret_words = ws]

\* the top activation, now f, calls g
invoke(c, f, g) ==
  [c EXCEPT !.stack = Append(SubSeq(@, 1, Len(@) - 1), f) \o <<g>>,
            !.has_ret = FALSE]

\* the try/except of CFGParser.parse around parse_raw ending as outcome
caught(op, outcome) ==
  IF op = "parse" /\ outcome.exc \in {"GrammarError", "ParseError"}
  THEN Ended("", EmptyDict, NoError, <<>>, NoTree)
  ELSE outcome

\* the call of the caller ends: parse_raw or next_word returns or raises,
\* and so does the parse that called parse_raw
ended(c, outcome) ==
  [c EXCEPT !.status = "done", !.stack = <<>>, !.has_ret = FALSE,
            !.outcome = caught(c.op, outcome)]

\* the nested activations of _parse or _next_word on the stack of c
depth(c) ==
  Cardinality({i \in 1..Len(c.stack) : c.stack[i].fn \in {"_parse", "_next_word"}})

\* an exception that no activation catches
raise(c, exc) == ended(c, Ended(exc, PyNone, NoError, <<>>, NoTree))

\* a parse_raw that takes each alternative out of the rule as it tries it
parse_raw_for_consuming(obj, c, f) ==
  LET rs == obj.self.rules
      left == [i \in 1..Len(rs) |->
                 IF rs[i].lname = c.target
                 THEN [rs[i] EXCEPT !.options = Tail(@)] ELSE rs[i]]
  IN CASE f.k > Len(f.options) /\ f.best_fail = None ->
            Stepped(obj, raise(c, "AssertionError"))
       [] f.k > Len(f.options) /\ f.best_fail # None ->
            Stepped(obj, ended(c, Ended("ParseError", PyNone,
                                        ParseError(f.words, f.best_fail), <<>>,
                                        NoTree)))
       [] f.k <= Len(f.options) ->
            Stepped(new_tree([obj EXCEPT !.self.rules = left],
                             alloc(obj.heap, c), f.options[f.k]),
                    [invoke(c, [f EXCEPT !.pc = "loop", !.tree = alloc(obj.heap, c)],
                            Frame("_parse", "enter", alloc(obj.heap, c), 0, f.words, 0))
                       EXCEPT !.made = @ \cup {alloc(obj.heap, c)}])

\* parse_raw: "tree = Tree(opt); ret = self._parse((tree, 0), words, 0)" for
\* alternative f.k, or the end of the for loop
parse_raw_for(obj, c, f) ==
  CASE f.k > Len(f.options) /\ f.best_fail = None ->
         Stepped(obj, raise(c, "AssertionError"))
    [] f.k > Len(f.options) /\ f.best_fail # None ->
         Stepped(obj, ended(c, Ended("ParseError", PyNone,
                                     ParseError(f.words, f.best_fail), <<>>,
                                     NoTree)))
    [] f.k <= Len(f.options) ->
         Stepped(new_tree(obj, alloc(obj.heap, c), f.options[f.k]),
                 [invoke(c, [f EXCEPT !.pc = "loop", !.tree = alloc(obj.heap, c)],
                         Frame("_parse", "enter", alloc(obj.heap, c), 0, f.words, 0))
                    EXCEPT !.made = @ \cup {alloc(obj.heap, c)}])

\* a step of the activation f of parse_raw
step_parse_raw(obj, c, f) ==
  CASE f.pc = "enter" /\ ~HasRule(obj.self.rules, c.target) ->
         Stepped(obj, raise(c, "Exception"))
    [] f.pc = "enter" /\ HasRule(obj.self.rules, c.target) ->
         parse_raw_for(obj, c,
                       [f EXCEPT !.words = IF c.words.is_str
                                           THEN split(c.words.text, " ")
                                           ELSE c.words.list,
                                 !.options = GetRule(obj.self.rules, c.target).options,
                                 !.k = 1])
    [] f.pc = "loop" /\ c.ret = None ->
         Stepped(obj,
                 ended(c, Ended("",
                                yaml_safe_load(replace(replace(
                                  get_semantics(obj.heap, f.tree), "<", "["),
                                  ">", "]")),
                                NoError, <<>>, f.tree)))
    [] f.pc = "loop" /\ c.ret # None ->
         parse_raw_for(obj, c, [f EXCEPT !.best_fail = better_fail(@, c.ret),
                                         !.k = @ + 1])

\* _parse: "subtree = tree.add_subtree(idx, Tree(opt)); ret =
\* self._parse((subtree, 0), words, word_index)" for candidate f.k
parse_for(obj, c, f) ==
  Stepped(heap_add_subtree(obj, alloc(obj.heap, c), f.tree, f.idx, f.options[f.k]),
          [invoke(c, f, Frame("_parse", "enter", alloc(obj.heap, c), 0, f.words,
                              f.word_index))
             EXCEPT !.made = @ \cup {alloc(obj.heap, c)}])

\* a step of the activation f of _parse
step_parse(obj, c, f) ==
  LET conjuncts == IF f.tree = NoTree THEN <<>>
                   ELSE obj.heap[f.tree].option.conjuncts
      conj == conjuncts[f.idx + 1]
      func_name == SliceFrom(conj.name, 1)
      next == Tree_next(obj.heap, f.tree, f.idx)
      enter == f.pc = "enter"
      deep == enter /\ depth(c) > RecursionLimit
      no_tree == enter /\ ~deep /\ f.tree = NoTree
      at_end == enter /\ ~deep /\ f.tree # NoTree /\ Len(conjuncts) = f.idx
      at_conj == enter /\ ~deep /\ f.tree # NoTree /\ Len(conjuncts) # f.idx
      is_rule == at_conj /\ conj.is_variable
      is_atom == at_conj /\ ~conj.is_variable
      is_func == is_atom /\ CharAt(conj.name, 0) = "$"
      is_word == is_atom /\ Len(conj.name) > 0 /\ CharAt(conj.name, 0) # "$"
      expands == \/ is_rule /\ HasRule(obj.self.rules, conj.name)
                 \/ is_func /\ HasFunction(obj.self.functions, func_name)
      options == IF conj.is_variable
                 THEN GetRule(obj.self.rules, conj.name).options
                 ELSE ApplyFunction(GetFunction(obj.self.functions, func_name),
                                    SliceFrom(f.words, f.word_index))
  IN CASE f.pc = "tail" -> Stepped(obj, return_index(c, c.ret))
       [] f.pc = "loop" /\ c.ret = None -> Stepped(obj, return_index(c, None))
       [] f.pc = "loop" /\ c.ret # None /\ f.k >= Len(f.options) ->
            Stepped(obj, return_index(c, better_fail(f.best_fail, c.ret)))
       [] f.pc = "loop" /\ c.ret # None /\ f.k < Len(f.options) ->
            parse_for(obj, c, [f EXCEPT !.best_fail = better_fail(@, c.ret),
                                        !.k = @ + 1])
       [] deep -> Stepped(obj, raise(c, "RecursionError"))
       [] no_tree /\ Len(f.words) = f.word_index ->
            Stepped(obj, return_index(c, None))
       [] no_tree /\ Len(f.words) # f.word_index ->
            Stepped(obj, return_index(c, f.word_index))
       [] at_end ->
            Stepped(obj, invoke(c, [f EXCEPT !.pc = "tail"],
                                Frame("_parse", "enter", next[1], next[2],
                                      f.words, f.word_index)))
       [] is_rule /\ ~HasRule(obj.self.rules, conj.name) ->
            Stepped(obj, raise(c, "GrammarError"))
       [] is_atom /\ Len(conj.name) = 0 -> Stepped(obj, raise(c, "IndexError"))
       [] is_func /\ ~HasFunction(obj.self.functions, func_name) ->
            Stepped(obj, raise(c, "GrammarError"))
       [] expands /\ Len(options) = 0 ->
            Stepped(obj, raise(c, "AssertionError"))
       [] expands /\ Len(options) > 0 ->
            parse_for(obj, c, [f EXCEPT !.pc = "loop", !.options = options,
                                        !.k = 1])
       [] is_word /\ f.word_index >= Len(f.words) ->
            Stepped(obj, return_index(c, f.word_index))
       [] is_word /\ f.word_index < Len(f.words)
            /\ conj.name = f.words[f.word_index + 1] ->
            Stepped(obj, invoke(c, [f EXCEPT !.pc = "tail"],
                                Frame("_parse", "enter", next[1], next[2],
                                      f.words, f.word_index + 1)))
       [] is_word /\ f.word_index < Len(f.words)
            /\ conj.name # f.words[f.word_index + 1] ->
            Stepped(obj, return_index(c, f.word_index))

\* next_word: "next_words += self._next_word((Tree(opt), 0), words)" for
\* alternative f.k, or the end of the for loop
next_word_for(obj, c, f) ==
  IF f.k > Len(f.options)
  THEN Stepped(obj, ended(c, Ended("", PyNone, NoError, f.next_words, NoTree)))
  ELSE Stepped(new_tree(obj, alloc(obj.heap, c), f.options[f.k]),
               [invoke(c, [f EXCEPT !.pc = "loop", !.tree = alloc(obj.heap, c)],
                       Frame("_next_word", "enter", alloc(obj.heap, c), 0, f.words, 0))
                  EXCEPT !.made = @ \cup {alloc(obj.heap, c)}])

\* a step of the activation f of next_word
step_next_word(obj, c, f) ==
  CASE f.pc = "enter" /\ ~HasRule(obj.self.rules, c.target) ->
         Stepped(obj, ended(c, Ended("", PyNone, NoError, <<>>, NoTree)))
    [] f.pc = "enter" /\ HasRule(obj.self.rules, c.target) ->
         next_word_for(obj, c,
                       [f EXCEPT !.words = c.words.list,
                                 !.options = GetRule(obj.self.rules, c.target).options,
                                 !.k = 1])
    [] f.pc = "loop" ->
         next_word_for(obj, c, [f EXCEPT !.next_words = @ \o c.ret_words,
                                         !.k = @ + 1])

\* _next_word: "subtree = tree.add_subtree(idx, Tree(opt)); next_words +=
\* self._next_word((subtree, 0), words)" for candidate f.k
completion_for(obj, c, f) ==
  Stepped(heap_add_subtree(obj, alloc(obj.heap, c), f.tree, f.idx, f.options[f.k]),
          [invoke(c, f, Frame("_next_word", "enter", alloc(obj.heap, c), 0, f.words, 0))
             EXCEPT !.made = @ \cup {alloc(obj.heap, c)}])

\* a step of the activation f of _next_word
step_completion(obj, c, f) ==
  LET conjuncts == IF f.tree = NoTree THEN <<>>
                   ELSE obj.heap[f.tree].option.conjuncts
      conj == conjuncts[f.idx + 1]
      func_name == SliceFrom(conj.name, 1)
      next == Tree_next(obj.heap, f.tree, f.idx)
      enter == f.pc = "enter"
      deep == enter /\ depth(c) > RecursionLimit
      at_conj == enter /\ ~deep /\ f.tree # NoTree /\ f.idx < Len(conjuncts)
      is_rule == at_conj /\ conj.is_variable
      is_atom == at_conj /\ ~conj.is_variable
      is_func == is_atom /\ CharAt(conj.name, 0) = "$"
      is_word == is_atom /\ Len(conj.name) > 0 /\ CharAt(conj.name, 0) # "$"
      expands == \/ is_rule /\ HasRule(obj.self.rules, conj.name)
                 \/ is_func /\ HasFunction(obj.self.functions, func_name)
      options == IF conj.is_variable
                 THEN GetRule(obj.self.rules, conj.name).options
                 ELSE ApplyFunction(GetFunction(obj.self.functions, func_name),
                                    f.words)
  IN CASE f.pc = "tail" -> Stepped(obj, return_words(c, c.ret_words))
       [] f.pc = "loop" /\ f.k >= Len(f.options) ->
            Stepped(obj, return_words(c, f.next_words \o c.ret_words))
       [] f.pc = "loop" /\ f.k < Len(f.options) ->
            completion_for(obj, c, [f EXCEPT !.next_words = @ \o c.ret_words,
                                             !.k = @ + 1])
       [] deep -> Stepped(obj, raise(c, "RecursionError"))
       [] enter /\ ~deep /\ f.tree = NoTree -> Stepped(obj, return_words(c, <<>>))
       [] enter /\ ~deep /\ f.tree # NoTree /\ f.idx >= Len(conjuncts) ->
            Stepped(obj, raise(c, "IndexError"))
       [] is_rule /\ ~HasRule(obj.self.rules, conj.name) ->
            Stepped(obj, return_words(c, <<>>))
       [] is_atom /\ Len(conj.name) = 0 -> Stepped(obj, raise(c, "IndexError"))
       [] is_func /\ ~HasFunction(obj.self.functions, func_name) ->
            Stepped(obj, return_words(c, <<>>))
       [] expands /\ Len(options) = 0 -> Stepped(obj, return_words(c, <<>>))
       [] expands /\ Len(options) > 0 ->
            completion_for(obj, c, [f EXCEPT !.pc = "loop", !.options = options,
                                             !.k = 1])
       [] is_word /\ Len(f.words) = 0 ->
            Stepped(obj, return_words(c, <<conj.name>>))
       [] is_word /\ Len(f.words) > 0 /\ conj.name = f.words[1] ->
            Stepped(obj, invoke(c, [f EXCEPT !.pc = "tail"],
                                Frame("_next_word", "enter", next[1], next[2],
                                      Tail(f.words), 0)))
       [] is_word /\ Len(f.words) > 0 /\ conj.name # f.words[1] ->
            Stepped(obj, return_words(c, <<>>))

\* a step of the top activation f of the caller c
step_frame(obj, c, f) ==
  CASE f.fn = "parse" ->
         Stepped(obj, invoke(c, [f EXCEPT !.pc = "tail"],
                             Frame("parse_raw", "enter", NoTree, 0, <<>>, 0)))
    [] f.fn = "parse_raw" -> step_parse_raw(obj, c, f)
    [] f.fn = "_parse" -> step_parse(obj, c, f)
    [] f.fn = "next_word" -> step_next_word(obj, c, f)
    [] f.fn = "_next_word" -> step_completion(obj, c, f)

step(obj, c) == step_frame(obj, c, c.stack[Len(c.stack)])

----------------------------------------------------------------------------
(* The parser object and the operations on it                              *)

\* the longest token list handed to parse_raw and parse, the longest prefix
\* handed to next_word, and the largest function table
MaxWords == 4

MaxPrefix == 2

MaxFunctions == 1

\* the lines of a grammar text
MaxLines == 3

\* the tokens a prefix that can be completed may still need, after its next
\* token, to become a sentence
MaxCompletion == 2

\* Grammar texts.  SingleRule, Subrules and EmptySubrules are the grammars
\* of test_cfgparser.py
SingleRule == "T[{\"key\":\"value\"}] -> a b c"

Subrules == "T[X] -> A[X] | B[X]\nA[\"a\"] -> p\nB[\"b\"] -> q"

EmptySubrules ==
  "T[X] -> A[X] | B[X]\nA[\"a\"] -> p D\nB[\"b\"] -> q E\nD -> | r\nE -> r |"

Completion2 == "T -> a b | a c"

EmptyAlt == "D -> | r;A -> p D"

Backtrack ==
  "T[X] -> A[X] c | B[X]\nA[\"s\"] -> a\nA[\"l\"] -> a b\nB[\"m\"] -> a b c | a"

RightRec == "# a list\nS[<X>] -> a S[X] | b"

LeftRec == "L -> L x | y"

Unproductive == "T -> a U | b\nU -> c U"

Dangling == "T -> $f | a\nS -> Q | a b"

EmptyFirst == "T -> D x\nD -> | r"

NullableLeft == "N -> D N x | y\nD -> | r"

KeylessChild == "T[\"t\"] -> A\nA[\"a\"] -> p"

FunctionNames == {"f"}

\* a token that most of the grammar texts do not use as a terminal
Foreign == {"q"}

Self == [rules |-> rules, functions |-> functions]

\* the terminals of a rule table
Terminals(rs) ==
  LET cs == AllConjuncts(rs)
  IN {cs[i].name : i \in {j \in 1..Len(cs) :
                            ~cs[j].is_variable /\ CharAt(cs[j].name, 0) # "$"}}

\* the token lists of at most n tokens handed to the operations
TokenLists(n) == UNION {[1..k -> Terminals(rules) \cup Foreign] : k \in 0..n}

\* the target names handed to the operations: every rule and an absent name
Targets == {rules[i].lname : i \in 1..Len(rules)} \cup {"Q"}

Call(op, target, words) == [op |-> op, target |-> target, words |-> words]

NoResult == Result("", PyNone, NoError, <<>>, NoTree, <<>>)

\* CFGParser.__init__ of either class: empty tables
Init ==
  /\ impl \in {"grammar_parser", "nl_robot_console"}
  /\ rules = <<>>
  /\ functions = <<>>
  /\ call = Call("init", "", List(<<>>))
  /\ result = NoResult
  /\ heap = <<>>
  /\ callers = [t \in Callers |-> NoCaller(t)]

\* parser.set_function(name, func): before the grammar is loaded in
\* grammar_parser, after fromfile has made the parser in nl_robot_console
SetFunction ==
  /\ \/ impl = "grammar_parser" /\ call.op \in {"init", "set_function"}
     \/ impl = "nl_robot_console" /\ call.op \in {"set_function", "fromfile"}
  /\ Len(functions) < MaxFunctions
  /\ \E name \in FunctionNames, func \in FuncBehaviours :
       /\ functions' = set_function(functions, name, func)
       /\ call' = Call("set_function", name, Str(func))
  /\ result' = NoResult
  /\ UNCHANGED <<impl, rules, heap, callers>>

\* the loader ended as r: the table it left and the exception it raised
Loaded(r) ==
  /\ rules' = r.rules
  /\ result' = [NoResult EXCEPT !.exc = r.err.exc, !.error.msg = r.err.msg]

\* CFGParser.fromstring(text, parser) of grammar_parser: the rules added
\* before an exception stay in the parser that was passed in
FromString(text) ==
  /\ impl = "grammar_parser"
  /\ call.op \in {"init", "set_function"}
  /\ Loaded(fromstring(rules, functions, text))
  /\ call' = Call("fromstring", "", Str(text))
  /\ UNCHANGED <<impl, functions, heap, callers>>

\* CFGParser.fromfile(filename) of nl_robot_console on a file holding text:
\* a new parser, add_rule for every line, no check
FromFile(text) ==
  /\ impl = "nl_robot_console"
  /\ call.op = "init"
  /\ Loaded(load_lines(<<>>, split(text, "\n")))
  /\ functions' = <<>>
  /\ call' = Call("fromfile", "", Str(text))
  /\ UNCHANGED <<impl, heap, callers>>

\* the caller holds no result: the grammar was just loaded, or the result of
\* the previous call, with its Trees, was dropped
Idle ==
  /\ Len(rules) > 0
  /\ call.op \in {"fromstring", "fromfile", "idle"}
       \/ (call.op = "set_function" /\ impl = "nl_robot_console")

\* the caller drops what the last call returned; its Trees become garbage
Return ==
  /\ call.op \notin {"init", "set_function", "fromstring", "fromfile", "idle"}
  /\ call' = Call("idle", "", List(<<>>))
  /\ result' = NoResult
  /\ UNCHANGED <<impl, rules, functions, heap, callers>>

\* the two forms of the words argument for one token list
WordForms(ws) == {List(ws), Str(join(" ", ws))}

\* parser.parse_raw(target, words) with a list of words or with a sentence
ParseRaw ==
  /\ impl = "grammar_parser" /\ Idle
  /\ \E target \in Targets, ws \in TokenLists(MaxWords) :
       \E words \in WordForms(ws) :
         /\ call' = Call("parse_raw", target, words)
         /\ result' = parse_raw(Self, target, words)
  /\ UNCHANGED <<impl, rules, functions, heap, callers>>

\* parser.parse(target, words)
Parse ==
  /\ impl = "grammar_parser" /\ Idle
  /\ \E target \in Targets, ws \in TokenLists(MaxWords) :
       \E words \in WordForms(ws) :
         /\ call' = Call("parse", target, words)
         /\ result' = parse(Self, target, words)
  /\ UNCHANGED <<impl, rules, functions, heap, callers>>

\* parser.get_random_sentence(lname): one of the sentences random.choice
\* can lead to
GetRandomSentence ==
  /\ impl = "grammar_parser" /\ Idle
  /\ \E lname \in Targets :
       \E r \in get_random_sentence(Self, lname) :
         /\ call' = Call("get_random_sentence", lname, List(<<>>))
         /\ result' = [NoResult EXCEPT !.exc = r.exc,
                                       !.value = PyValue("str", "", r.sentence)]
  /\ UNCHANGED <<impl, rules, functions, heap, callers>>

\* parser.next_word(target, words) of grammar_parser
NextWord ==
  /\ impl = "grammar_parser" /\ Idle
  /\ \E target \in Targets, words \in TokenLists(MaxPrefix) :
       /\ call' = Call("next_word", target, List(words))
       /\ result' = next_word(Self, target, words)
  /\ UNCHANGED <<impl, rules, functions, heap, callers>>

\* parser.next_word(target, words) of nl_robot_console
NlNextWord ==
  /\ impl = "nl_robot_console" /\ Idle
  /\ \E target \in Targets, words \in TokenLists(MaxPrefix) :
       /\ call' = Call("next_word", target, List(words))
       /\ result' = nl_next_word(Self, target, words)
  /\ UNCHANGED <<impl, rules, functions, heap, callers>>

\* the calls the callers make on the shared parser
SharedCalls ==
  {Call("parse_raw", target, List(ws)) :
     target \in Targets, ws \in {<<"a">>, <<"a", "b">>, <<"a", "b", "c">>}}
    \cup {Call("parse", "T", Str(ws)) : ws \in {"a c", "a q"}}
    \cup {Call("next_word", target, List(ws)) :
            target \in {"T"}, ws \in {<<>>, <<"a">>}}

\* the caller t invokes parse_raw, parse or next_word on the loaded parser
Begin(t) ==
  /\ impl = "grammar_parser" /\ Idle
  /\ callers[t].status = "idle"
  /\ \E c \in SharedCalls :
       callers' = [callers EXCEPT ![t] =
                     Caller(t, "running", c.op, c.target, c.words,
                            <<Frame(c.op, "enter", NoTree, 0, <<>>, 0)>>)]
  /\ UNCHANGED <<impl, rules, functions, call, result, heap>>

\* the objects and the caller t after the step s
Took(t, s) ==
  /\ rules' = s.obj.self.rules
  /\ functions' = s.obj.self.functions
  /\ heap' = s.obj.heap
  /\ callers' = [callers EXCEPT ![t] = s.c]

\* the call of the caller t runs up to its next call, return or raise
Step(t) ==
  /\ callers[t].status = "running"
  /\ Took(t, step(Objects(Self, heap), callers[t]))
  /\ UNCHANGED <<impl, call, result>>

\* the caller t drops what its call returned; the Trees the call made go,
\* but for those another caller can still reach
Drop(t) ==
  /\ callers[t].status = "done"
  /\ callers' = [callers EXCEPT ![t] = NoCaller(t)]
  /\ heap' = [a \in DOMAIN heap \
                      (callers[t].made \
                         Reachable(heap, UNION {Held(heap, callers[u]) :
                                                  u \in Callers \ {t}})) |->
                heap[a]]
  /\ UNCHANGED <<impl, rules, functions, call, result>>

----------------------------------------------------------------------------
(* Specifications                                                          *)

\* Matching and generation in grammar_parser, on grammars without function
\* references
MatchTexts ==
  {SingleRule, Subrules, EmptySubrules, Completion2, EmptyAlt, Backtrack,
   RightRec, LeftRec, Unproductive}

MatchInit == Init /\ impl = "grammar_parser"

MatchNext ==
  \/ \E text \in MatchTexts : FromString(text)
  \/ ParseRaw
  \/ Parse
  \/ GetRandomSentence
  \/ Return

MatchSpec == MatchInit /\ [][MatchNext]_vars

\* Completion in both implementations
CompletionTexts ==
  {SingleRule, Subrules, Completion2, Backtrack, RightRec, Unproductive, Dangling}

CompletionNext ==
  \/ SetFunction
  \/ \E text \in CompletionTexts : FromString(text)
  \/ \E text \in CompletionTexts : FromFile(text)
  \/ NextWord
  \/ NlNextWord
  \/ Return

CompletionSpec == Init /\ [][CompletionNext]_vars

\* Matching in grammar_parser with a registered expansion function
ExpansionTexts == {Subrules, EmptySubrules, Backtrack, Dangling}

ExpansionNext ==
  \/ SetFunction
  \/ \E text \in ExpansionTexts : FromString(text)
  \/ ParseRaw
  \/ Return

ExpansionSpec == MatchInit /\ [][ExpansionNext]_vars

\* Loading in grammar_parser: grammar texts of at most MaxLines lines, some of
\* them comments, some without an arrow or with two
DeclarationLines ==
  {"V_GRASP[\"pick-up\"] -> grab | grasp | pick",
   "A[\"s\"] -> a",
   "  A[\"l\"] -> a b | B[X] c",
   "B -> | r",
   "A b",
   "A -> b -> c",
   "A -> -> b",
   "# A -> x"}

LoadTexts ==
  {join("\n", ls) : ls \in UNION {[1..k -> DeclarationLines] : k \in 1..MaxLines}}

LoadNext == \E text \in LoadTexts : FromString(text)

LoadSpec == MatchInit /\ [][LoadNext]_vars

\* Calls of several callers on one loaded parser, taken in steps
SharedTexts == {Backtrack, Dangling}

SharedNext ==
  \/ \E text \in SharedTexts : FromString(text)
  \/ \E t \in Callers : Begin(t)
  \/ \E t \in Callers : Step(t)
  \/ \E t \in Callers : Drop(t)

SharedSpec == MatchInit /\ [][SharedNext]_vars

\* Matching and completion in grammar_parser on grammars with recursion,
\* with empty alternatives and with atoms that have no semantics key,
\* without function references
RecursionTexts ==
  {Backtrack, RightRec, LeftRec, EmptyAlt, EmptySubrules, EmptyFirst,
   NullableLeft, KeylessChild}

RecursionNext ==
  \/ \E text \in RecursionTexts : FromString(text)
  \/ ParseRaw
  \/ NextWord
  \/ Return

RecursionSpec == MatchInit /\ [][RecursionNext]_vars

----------------------------------------------------------------------------
(* Reference semantics of a rule table: what its rules derive              *)

RuleNames(rs) == {rs[i].lname : i \in 1..Len(rs)}

OptionsOf(rs, name) ==
  {GetRule(rs, name).options[k] : k \in 1..Len(GetRule(rs, name).options)}

AllOptions(rs) == UNION {OptionsOf(rs, name) : name \in RuleNames(rs)}

\* the token lists of at most n tokens an atom derives, given what the rules
\* are known to derive
AtomSentences(L, conj) ==
  IF conj.is_variable
  THEN IF conj.name \in DOMAIN L THEN L[conj.name] ELSE {}
  ELSE {<<conj.name>>}

RECURSIVE AltSentences(_, _, _)
AltSentences(L, conjs, n) ==
  IF Len(conjs) = 0 THEN {<<>>}
  ELSE {s \in {x \o y : x \in AtomSentences(L, Head(conjs)),
                        y \in AltSentences(L, Tail(conjs), n)} : Len(s) <= n}

RECURSIVE SentencesFrom(_, _, _)
SentencesFrom(rs, L, n) ==
  LET L2 == [name \in RuleNames(rs) |->
               UNION {AltSentences(L, o.conjuncts, n) : o \in OptionsOf(rs, name)}]
  IN IF L2 = L THEN L ELSE SentencesFrom(rs, L2, n)

\* rule name -> the sentences of at most n tokens derivable from the rule
Sentences(rs, n) == SentencesFrom(rs, [name \in RuleNames(rs) |-> {}], n)

Derivable(rs, target, words) == words \in Sentences(rs, Len(words))[target]

\* the rules that derive the empty token list
Nullable(rs) == {name \in RuleNames(rs) : <<>> \in Sentences(rs, 0)[name]}

\* the rules an alternative of name can start with before any token is consumed
LeftCalls(rs, name) ==
  UNION {{o.conjuncts[i].name : i \in
            {i \in 1..Len(o.conjuncts) :
               /\ o.conjuncts[i].is_variable
               /\ \A j \in 1..(i - 1) :
                    /\ o.conjuncts[j].is_variable
                    /\ o.conjuncts[j].name \in Nullable(rs)}} :
         o \in OptionsOf(rs, name)}

RECURSIVE LeftClosure(_, _)
LeftClosure(rs, S) ==
  LET S2 == S \cup UNION {LeftCalls(rs, x) : x \in S \cap RuleNames(rs)}
  IN IF S2 = S THEN S ELSE LeftClosure(rs, S2)

\* no rule can reach itself without consuming a token
NoLeftRecursion(rs) ==
  \A name \in RuleNames(rs) : name \notin LeftClosure(rs, LeftCalls(rs, name))

\* only terminals and references to rules of the table
OnlyTerminalsAndRules(rs) ==
  \A i \in 1..Len(AllConjuncts(rs)) :
    LET conj == AllConjuncts(rs)[i]
    IN IF conj.is_variable THEN conj.name \in RuleNames(rs)
       ELSE CharAt(conj.name, 0) # "$"

NoEmptyAlternative(rs) == \A o \in AllOptions(rs) : Len(o.conjuncts) > 0

\* the rule table fromstring builds from a text on a fresh parser
TableOf(text) == fromstring(<<>>, <<>>, text).rules

----------------------------------------------------------------------------
(* Properties                                                              *)

\* the grammars of C1: terminals, references to rules of the table and empty
\* alternatives, and no rule that reaches itself without consuming a token
MatchClass(rs) == OnlyTerminalsAndRules(rs) /\ NoLeftRecursion(rs)

C2_EmptyAlternative ==
  (call.op = "parse_raw" /\ rules = TableOf(EmptyAlt)) =>
    /\ (call.target = "D" /\ call.words.is_str)
         => (result.exc = "" <=> call.words.text \in {"", "r"})
    /\ (call.target = "D" /\ ~call.words.is_str)
         => (result.exc = "" <=> call.words.list \in {<<>>, <<"r">>})
    /\ (call.target = "A" /\ call.words.is_str)
         => (result.exc = "" <=> call.words.text \in {"p", "p r"})
    /\ (call.target = "A" /\ ~call.words.is_str)
         => (result.exc = "" <=> call.words.list \in {<<"p">>, <<"p", "r">>})

\* what C2_EmptyAlternative says of every input but the empty sentence
C2_ButEmptySentence ==
  (call.op = "parse_raw" /\ call.words # Str("")) => C2_EmptyAlternative

\* the empty sentence is split into one empty word, which no alternative of
\* D matches
C2_EmptySentenceRejected ==
  /\ call = Call("parse_raw", "D", Str(""))
  /\ rules = TableOf(EmptyAlt)
  /\ result.exc = "ParseError"
  /\ result.error = ParseError(<<"">>, 0)

\* the word list a call works on: a sentence is split at single spaces
WordsOf(words) == IF words.is_str THEN split(words.text, " ") ELSE words.list

\* an atom that is expanded into candidates: a sub-rule or a function
IsSlot(conj) == conj.is_variable \/ CharAt(conj.name, 0) = "$"

\* the tokens below a node, left to right: a terminal atom stands for itself,
\* a sub-rule or function atom for the tokens below the alternative installed
\* in its slot
RECURSIVE Yield(_, _, _)
Yield(trees, tree, i) ==
  IF i > Len(trees[tree].option.conjuncts) THEN <<>>
  ELSE LET conj == trees[tree].option.conjuncts[i]
           sub == trees[tree].subtrees[i]
       IN (IF ~IsSlot(conj) THEN <<conj.name>>
           ELSE IF sub = NoTree THEN <<"?">>
           ELSE Yield(trees, sub, 1)) \o Yield(trees, tree, i + 1)

\* the nodes below a node, the node included
RECURSIVE Below(_, _)
Below(trees, tree) ==
  {tree} \cup UNION {Below(trees, trees[tree].subtrees[i]) :
                       i \in {i \in 1..Len(trees[tree].subtrees) :
                                trees[tree].subtrees[i] # NoTree}}

\* every sub-rule slot below the node holds an alternative of the rule the
\* atom names
WellFormed(rs, trees, tree) ==
  \A n \in Below(trees, tree) : \A i \in 1..Len(trees[n].subtrees) :
    LET conj == trees[n].option.conjuncts[i]
    IN IF conj.is_variable
       THEN /\ trees[n].subtrees[i] # NoTree
            /\ HasRule(rs, conj.name)
            /\ trees[trees[n].subtrees[i]].option \in OptionsOf(rs, conj.name)
       ELSE trees[n].subtrees[i] = NoTree

\* the text of a node after the keys of its first n atoms were replaced, one
\* atom after the other, by the texts of the alternatives in their slots
RECURSIVE Composed(_, _, _)
Composed(trees, tree, n) ==
  IF n = 0 THEN trees[tree].option.lsemantic
  ELSE IF trees[tree].subtrees[n] = NoTree THEN Composed(trees, tree, n - 1)
  ELSE replace(Composed(trees, tree, n - 1),
               trees[tree].option.conjuncts[n].rsemantic,
               Composed(trees, trees[tree].subtrees[n],
                        Len(trees[trees[tree].subtrees[n]].subtrees)))

\* the value parse_raw makes of a composed text
Decoded(text) == yaml_safe_load(replace(replace(text, "<", "["), ">", "]"))

\* C3: the semantics of a successful match is composed bottom-up through the
\* sub-rule atoms: the tree of the match is a derivation of the input, every
\* sub-rule slot holding the alternative that matched there, and the value
\* returned is the template of the root with each atom's key replaced by the
\* text composed for the alternative in its slot; for T[X] -> A[X] | B[X],
\* A["a"] -> p, B["b"] -> q, parse_raw("T", "p") is "a" and
\* parse_raw("T", "q") is "b"
C3_SemanticsComposed ==
  /\ (call.op = "parse_raw" /\ result.exc = "") =>
       /\ result.root # NoTree
       /\ result.trees[result.root].option \in OptionsOf(rules, call.target)
       /\ WellFormed(rules, result.trees, result.root)
       /\ Yield(result.trees, result.root, 1) = WordsOf(call.words)
       /\ result.value =
            Decoded(Composed(result.trees, result.root,
                             Len(result.trees[result.root].subtrees)))
  /\ (call.op = "parse_raw" /\ rules = TableOf(Subrules) /\ call.target = "T") =>
       /\ WordsOf(call.words) = <<"p">>
            => result.exc = "" /\ result.value = PyValue("str", "", "a")
       /\ WordsOf(call.words) = <<"q">>
            => result.exc = "" /\ result.value = PyValue("str", "", "b")

\* a match that a slot's second candidate completed: the value comes from
\* that candidate, two levels below the root
C3_Witness ==
  /\ call = Call("parse_raw", "T", Str("a b c"))
  /\ rules = TableOf(Backtrack)
  /\ result.exc = ""
  /\ result.value = PyValue("str", "", "l")

\* the indices at which the branches explored by a call gave up
FailedAt(r) == {r.fails[i] : i \in 1..Len(r.fails)}

\* C4: when parse_raw finds no match, the index its ParseError reports is the
\* maximum token index at which any explored branch failed, over all
\* candidates at every slot and all top-level alternatives; for
\* T[{"key":"value"}] -> a b c it is 2 for "a b", 3 for "a b c d", 0 for "b"
\* and 0 for ""
C4_FurthestFailure ==
  /\ (call.op = "parse_raw" /\ result.exc = "ParseError") =>
       /\ FailedAt(result) # {}
       /\ result.error.word_index = Max(FailedAt(result))
  /\ (/\ call.op = "parse_raw" /\ call.words.is_str
      /\ call.target = "T" /\ rules = TableOf(SingleRule)) =>
       /\ call.words.text = "a b"
            => result.exc = "ParseError" /\ result.error.word_index = 2
       /\ call.words.text = "a b c d"
            => result.exc = "ParseError" /\ result.error.word_index = 3
       /\ call.words.text \in {"b", ""}
            => result.exc = "ParseError" /\ result.error.word_index = 0

\* a failed match in which several branches gave up at different indices and
\* the last one to give up was not the furthest
C4_Witness ==
  /\ call.op = "parse_raw"
  /\ result.exc = "ParseError"
  /\ Cardinality(FailedAt(result)) > 1
  /\ result.fails[Len(result.fails)] < result.error.word_index
  /\ result.error.word_index = 2

\* the Trees made for the alternatives of the target
TopLevel(trees) == {t \in 1..Len(trees) : trees[t].parent = NoTree}

\* the Trees made as candidates for slot i of node n
Candidates(trees, n, i) ==
  {t \in 1..Len(trees) : trees[t].parent = n /\ trees[t].parent_tree_idx = i - 1}

\* the first place of an option in a list of options
FirstIndex(options, o) == Min({k \in 1..Len(options) : options[k] = o})

\* the atoms that remain to be matched after slot i of node n: the rest of
\* the node's alternative, then what remains of its ancestors
RECURSIVE RestAtoms(_, _, _)
RestAtoms(trees, n, i) ==
  SubSeq(trees[n].option.conjuncts, i + 1, Len(trees[n].option.conjuncts)) \o
  (IF trees[n].parent = NoTree THEN <<>>
   ELSE RestAtoms(trees, trees[n].parent, trees[n].parent_tree_idx + 1))

\* the tokens matched from slot i of node n to the end of the input
RECURSIVE RestYield(_, _, _)
RestYield(trees, n, i) ==
  Yield(trees, n, i) \o
  (IF trees[n].parent = NoTree THEN <<>>
   ELSE RestYield(trees, trees[n].parent, trees[n].parent_tree_idx + 2))

\* the candidates of an atom in declared order, given the remaining words
CandidateOptions(conj, remaining) ==
  IF conj.is_variable THEN GetRule(rules, conj.name).options
  ELSE ApplyFunction(GetFunction(functions, SliceFrom(conj.name, 1)), remaining)

FunctionFree(conjs) ==
  \A i \in 1..Len(conjs) : CharAt(conjs[i].name, 0) # "$"

\* the atoms derive the tokens, by the rules alone
Derives(conjs, tokens) ==
  tokens \in AltSentences(Sentences(rules, Len(tokens)), conjs, Len(tokens))

\* slot i of node n holds the first candidate in order whose continuation
\* matches, and no candidate was made for the slot after it
FirstCandidate(trees, n, i) ==
  LET conj == trees[n].option.conjuncts[i]
      child == trees[n].subtrees[i]
      remaining == RestYield(trees, n, i)
      options == CandidateOptions(conj, remaining)
      rest == RestAtoms(trees, n, i)
  IN /\ child = Max(Candidates(trees, n, i))
     /\ \E j \in 1..Len(options) : options[j] = trees[child].option
     /\ \A j \in 1..(FirstIndex(options, trees[child].option) - 1) :
          FunctionFree(options[j].conjuncts \o rest)
            => ~Derives(options[j].conjuncts \o rest, remaining)

\* C5: first success wins in declared order: a successful parse_raw returns
\* the semantics of the first alternative of the target rule that has a
\* complete match, every sub-rule and function slot of its tree holds the
\* first candidate in order whose continuation matches, and no candidate of
\* any slot and no alternative of the target was made a Tree after that
C5_FirstSuccessWins ==
  (call.op = "parse_raw" /\ result.exc = "") =>
    LET trees == result.trees
        root == result.root
        words == WordsOf(call.words)
        options == GetRule(rules, call.target).options
        k == FirstIndex(options, trees[root].option)
    IN /\ root = Max(TopLevel(trees))
       /\ Cardinality(TopLevel(trees)) = k
       /\ \A t \in TopLevel(trees) :
            trees[t].option = options[Cardinality({u \in TopLevel(trees) : u <= t})]
       /\ \A k2 \in 1..(k - 1) :
            FunctionFree(options[k2].conjuncts)
              => ~Derives(options[k2].conjuncts, words)
       /\ Len(trees) \in Below(trees, root)
       /\ Yield(trees, root, 1) = words
       /\ \A n \in Below(trees, root) : \A i \in 1..Len(trees[n].subtrees) :
            IsSlot(trees[n].option.conjuncts[i]) => FirstCandidate(trees, n, i)

\* a match by the second alternative of the target, after a slot of the first
\* alternative had tried all its candidates
C5_Witness ==
  /\ call.op = "parse_raw" /\ result.exc = ""
  /\ rules = TableOf(Backtrack) /\ call.target = "T"
  /\ Cardinality(TopLevel(result.trees)) = 2
  /\ Len(result.trees) > 3

\* a match through a function slot whose second candidate refers to a rule
\* that does not exist: the first candidate matched and the second was never
\* made a Tree
C5_FunctionSlot ==
  /\ call.op = "parse_raw" /\ result.exc = ""
  /\ rules = TableOf(Dangling) /\ call.target = "T"
  /\ HasFunction(functions, "f") /\ GetFunction(functions, "f") = "dangling"
  /\ Len(result.trees) = 2

\* C6: round trip between generation and matching: for any grammar without
\* left recursion and any rule R, every sentence get_random_sentence(R) can
\* return is accepted by parse_raw(R, sentence)
C6_RoundTrip ==
  (call.op = "get_random_sentence" /\ result.exc = "" /\ NoLeftRecursion(rules))
    => parse_raw(Self, call.target, Str(result.value.str)).exc = ""

\* the round trip on the grammars that have no empty alternative
C6_RoundTripNoEmpty ==
  (/\ call.op = "get_random_sentence" /\ result.exc = ""
   /\ NoLeftRecursion(rules) /\ NoEmptyAlternative(rules))
    => parse_raw(Self, call.target, Str(result.value.str)).exc = ""

\* the sentence generated for A -> p D, D -> | r when D takes its empty
\* alternative ends with a space, and parse_raw rejects it
C6_GeneratedRejected ==
  /\ call = Call("get_random_sentence", "A", List(<<>>))
  /\ rules = TableOf(EmptyAlt)
  /\ result.exc = "" /\ result.value.str = "p "
  /\ parse_raw(Self, "A", Str("p ")).exc = "ParseError"

\* the rules that derive at least one sentence, starting from the set S
RECURSIVE ProductiveFrom(_, _)
ProductiveFrom(rs, S) ==
  LET S2 == {name \in RuleNames(rs) :
               \E o \in OptionsOf(rs, name) : \A i \in 1..Len(o.conjuncts) :
                 o.conjuncts[i].is_variable => o.conjuncts[i].name \in S}
  IN IF S2 = S THEN S ELSE ProductiveFrom(rs, S2)

\* every rule derives at least one sentence
Productive(rs) == ProductiveFrom(rs, {}) = RuleNames(rs)

\* the sentences of the target that go on after the prefix
Extensions(rs, target, prefix) ==
  {s \in Sentences(rs, Len(prefix) + 1 + MaxCompletion)[target] :
     Len(s) > Len(prefix) /\ SubSeq(s, 1, Len(prefix)) = prefix}

\* the tokens t such that the prefix followed by t is a prefix of a sentence
\* derivable from the target
Viable(rs, target, prefix) ==
  {s[Len(prefix) + 1] : s \in Extensions(rs, target, prefix)}

\* the tokens of a returned list
ToSet(list) == {list[i] : i \in 1..Len(list)}

\* the grammars of C7: terminals and references to rules, no left recursion,
\* no empty alternative
CompletionClass(rs) ==
  OnlyTerminalsAndRules(rs) /\ NoLeftRecursion(rs) /\ NoEmptyAlternative(rs)

\* a next_word call of grammar_parser on a rule of a grammar of C7
C7_Case ==
  /\ impl = "grammar_parser" /\ call.op = "next_word"
  /\ HasRule(rules, call.target) /\ CompletionClass(rules)

\* C7: for every grammar of terminals and sub-rule references without left
\* recursion and without empty alternatives, and every prefix, the set of
\* tokens next_word(target, prefix) returns equals the set of terminals t such
\* that the prefix followed by t is a prefix of a sentence derivable from the
\* target; it is empty when the prefix cannot be matched or is already a
\* complete sentence; for T -> a b | a c, next_word("T", ["a"]) is {"b", "c"}
C7_NextWordViable ==
  /\ C7_Case =>
       /\ result.exc = "" /\ ~result.is_false
       /\ ToSet(result.next_words) = Viable(rules, call.target, call.words.list)
       /\ Derivable(rules, call.target, call.words.list)
            => result.next_words = <<>>
  /\ (C7_Case /\ rules = TableOf(Completion2)
        /\ call.target = "T" /\ call.words.list = <<"a">>)
       => ToSet(result.next_words) = {"b", "c"}

\* C7 as it holds: for every such grammar in which, moreover, every rule
\* derives at least one sentence, the set of tokens returned equals the set of
\* terminals t such that the prefix followed by t is a prefix of a sentence
\* derivable from the target; it is empty exactly when no sentence goes on
\* after the prefix, that is when the prefix cannot be matched or is a
\* complete sentence that no longer sentence extends; for T -> a b | a c,
\* next_word("T", ["a"]) is {"b", "c"}
C7_NextWordViableProductive ==
  /\ (C7_Case /\ Productive(rules)) =>
       /\ result.exc = "" /\ ~result.is_false
       /\ ToSet(result.next_words) = Viable(rules, call.target, call.words.list)
       /\ result.next_words = <<>>
            <=> Extensions(rules, call.target, call.words.list) = {}
  /\ (C7_Case /\ rules = TableOf(Completion2)
        /\ call.target = "T" /\ call.words.list = <<"a">>)
       => ToSet(result.next_words) = {"b", "c"}

\* a prefix that is a complete sentence of the target and also goes on:
\* B -> a b c | a after "a"
C7_Witness ==
  /\ C7_Case /\ Productive(rules)
  /\ Derivable(rules, call.target, call.words.list)
  /\ call.words.list # <<>>
  /\ result.next_words # <<>>

\* a token proposed in front of a rule that derives no sentence:
\* T -> a U | b, U -> c U
C7_Unproductive ==
  /\ C7_Case /\ ~Productive(rules)
  /\ call.target = "T" /\ call.words.list = <<>>
  /\ ToSet(result.next_words) = {"a", "b"}
  /\ Viable(rules, "T", <<>>) = {"b"}

\* no token occurs twice in the list
DuplicateFree(list) ==
  \A i, j \in 1..Len(list) : list[i] = list[j] => i = j

\* C8: the collection of next tokens next_word(target, prefix) returns is
\* duplicate-free for every grammar and prefix, also when several
\* alternatives propose the same terminal, as for T -> a b | a c with an
\* empty prefix
C8_DuplicateFree ==
  (impl = "grammar_parser" /\ call.op = "next_word" /\ result.exc = "")
    => DuplicateFree(result.next_words)

\* both alternatives of T -> a b | a c propose a for the empty prefix, and
\* the list returned holds it twice
C8_ProposedTwice ==
  /\ impl = "grammar_parser"
  /\ call = Call("next_word", "T", List(<<>>))
  /\ rules = TableOf(Completion2)
  /\ result.exc = "" /\ result.next_words = <<"a", "a">>

\* the table holds T -> $f | a and S -> Q | a b, Q names no rule and no
\* function f is registered
DanglingLoaded ==
  /\ Len(rules) = 2 /\ ~HasRule(rules, "Q") /\ ~HasFunction(functions, "f")
  /\ GetRule(rules, "T").options =
       <<Option("", <<Conjunct("$f", "", FALSE)>>),
         Option("", <<Conjunct("a", "", FALSE)>>)>>
  /\ GetRule(rules, "S").options =
       <<Option("", <<Conjunct("Q", "", TRUE)>>),
         Option("", <<Conjunct("a", "", FALSE), Conjunct("b", "", FALSE)>>)>>

\* C9: completion never raises on an unknown reference: in grammar_parser and
\* in nl_robot_console, when next_word reaches a sub-rule atom whose rule is
\* not in the table or a function atom whose function is not registered, the
\* branch contributes no candidates and next_word returns the candidates of
\* the other branches
C9_UnknownReference ==
  (call.op = "next_word" /\ DanglingLoaded /\ call.target \in {"T", "S"}) =>
    /\ result.exc = "" /\ ~result.is_false
    /\ (call.target = "T" /\ call.words.list = <<>>)
         => result.next_words = <<"a">>
    /\ (call.target = "S" /\ call.words.list = <<>>)
         => result.next_words = <<"a">>
    /\ (call.target = "S" /\ call.words.list = <<"a">>)
         => result.next_words = <<"b">>

\* what C9_UnknownReference says of grammar_parser alone
C9_GrammarParser == impl = "grammar_parser" => C9_UnknownReference

\* what C9_UnknownReference says of a rule that is not in the table, in both
\* implementations
C9_UnknownRule == call.target = "S" => C9_UnknownReference

\* nl_robot_console: the branch of the unregistered function returns False,
\* and adding it to the list of candidates raises TypeError
C9_NlTypeError ==
  /\ impl = "nl_robot_console"
  /\ call = Call("next_word", "T", List(<<>>))
  /\ DanglingLoaded
  /\ result.exc = "TypeError"

\* C10: parse(target, words) hides all errors: for every target name, also
\* one that is absent from the grammar, and every sentence it never raises;
\* it returns the captured semantics value when the sentence matches and
\* False in every failure case
C10_ParseHidesErrors ==
  call.op = "parse" =>
    /\ result.exc = ""
    /\ parse_raw(Self, call.target, call.words).exc = ""
         => result.value = parse_raw(Self, call.target, call.words).value
    /\ parse_raw(Self, call.target, call.words).exc # ""
         => result.value = PyFalse

\* what parse does: the value of a match, the empty dict for a sentence that
\* does not match, and every other exception of parse_raw passed on
C10_ParseAsCoded ==
  call.op = "parse" =>
    LET raw == parse_raw(Self, call.target, call.words)
    IN /\ raw.exc = "" => result.exc = "" /\ result.value = raw.value
       /\ raw.exc \in {"ParseError", "GrammarError"}
            => result.exc = "" /\ result.value = EmptyDict
       /\ raw.exc \notin {"", "ParseError", "GrammarError"}
            => result.exc = raw.exc

\* parse with a target that is absent from the grammar raises the Exception
\* of parse_raw
C10_AbsentTargetRaises ==
  /\ call.op = "parse" /\ ~HasRule(rules, call.target)
  /\ result.exc = "Exception"

\* parse of a sentence that does not match returns the empty dict
C10_FailureIsEmptyDict ==
  /\ call = Call("parse", "T", Str("a b"))
  /\ rules = TableOf(SingleRule)
  /\ result.exc = "" /\ result.value = EmptyDict /\ result.value # PyFalse

\* the names of the rules that a sub-rule atom of the table refers to and
\* that the table does not hold
MissingRules(rs) ==
  {AllConjuncts(rs)[i].name : i \in
     {j \in 1..Len(AllConjuncts(rs)) :
        AllConjuncts(rs)[j].is_variable /\ ~HasRule(rs, AllConjuncts(rs)[j].name)}}

\* the names of the functions that a function atom of the table refers to
\* and that are not registered
MissingFunctions(rs, fs) ==
  {SliceFrom(AllConjuncts(rs)[i].name, 1) : i \in
     {j \in 1..Len(AllConjuncts(rs)) :
        /\ CharAt(AllConjuncts(rs)[j].name, 0) = "$"
        /\ ~HasFunction(fs, SliceFrom(AllConjuncts(rs)[j].name, 1))}}

\* the messages that name a missing rule or function of the table
MissingMessages(rs, fs) ==
  {"Rule '" \o n \o "' is missing" : n \in MissingRules(rs)} \cup
  {"Function '" \o n \o "' is missing" : n \in MissingFunctions(rs, fs)}

\* C11: static validation at load: fromstring returns normally only if every
\* sub-rule atom names a loaded rule and every function atom a registered
\* function; otherwise loading fails with a GrammarError, the error kind of a
\* dangling reference found at match time, whose message names the missing
\* rule or function
C11_StaticValidation ==
  call.op = "fromstring" =>
    /\ result.exc = "" => MissingMessages(rules, functions) = {}
    /\ MissingMessages(rules, functions) # {}
         => /\ result.exc = "GrammarError"
            /\ result.error.msg \in MissingMessages(rules, functions)

\* what the load does: it ends normally exactly when nothing is missing, and
\* otherwise with the AssertionError of check_rules naming something missing
C11_AssertionAtLoad ==
  call.op = "fromstring" =>
    /\ result.exc = "" <=> MissingMessages(rules, functions) = {}
    /\ MissingMessages(rules, functions) # {}
         => /\ result.exc = "AssertionError"
            /\ result.error.msg \in MissingMessages(rules, functions)

\* loading T -> $f | a without a function f ends with an AssertionError,
\* while the same reference met by parse_raw gives a GrammarError
C11_AssertionNotGrammarError ==
  /\ call.op = "fromstring" /\ functions = <<>>
  /\ rules = TableOf(Dangling)
  /\ result.exc = "AssertionError"
  /\ result.error.msg = "Function 'f' is missing"
  /\ parse_raw(Self, "T", List(<<"a">>)).exc = "GrammarError"

----------------------------------------------------------------------------
(* Reference reading of a grammar text: what its declaration lines say     *)

\* the declaration lines of a text: stripped, without the empty lines and
\* the comments
RECURSIVE DeclarationsOf(_)
DeclarationsOf(lines) ==
  IF Len(lines) = 0 THEN <<>>
  ELSE (IF strip(Head(lines)) = "" \/ CharAt(strip(Head(lines)), 0) = "#"
        THEN <<>> ELSE <<strip(Head(lines))>>) \o DeclarationsOf(Tail(lines))

\* the places of a line where an arrow " -> " stands
ArrowsAt(line) == {i \in 0..(Len(line) - 4) : Slice(line, i, i + 4) = " -> "}

\* the number of arrows of a line, counted from the left without overlap (as
\* str.count counts)
RECURSIVE ArrowCount(_)
ArrowCount(line) ==
  IF ArrowsAt(line) = {} THEN 0
  ELSE 1 + ArrowCount(SliceFrom(line, Min(ArrowsAt(line)) + 4))

\* the words of a text: its maximal runs without a space
Words(text) ==
  LET starts == {i \in 0..(Len(text) - 1) :
                   CharAt(text, i) # " " /\ (i = 0 \/ CharAt(text, i - 1) = " ")}
      end(i) == Min({j \in i..Len(text) : j = Len(text) \/ CharAt(text, j) = " "})
      nth(k) == CHOOSE i \in starts : Cardinality({j \in starts : j < i}) = k - 1
  IN [k \in 1..Cardinality(starts) |-> Slice(text, nth(k), end(nth(k)))]

\* the name of a written atom NAME or NAME[key], and its key
AtomName(w) ==
  Slice(w, 0, Min({i \in 0..Len(w) : i = Len(w) \/ CharAt(w, i) = "["}))

AtomKey(w) ==
  IF Len(AtomName(w)) = Len(w) THEN ""
  ELSE Slice(w, Len(AtomName(w)) + 1,
             Min({i \in (Len(AtomName(w)) + 1)..Len(w) :
                    i = Len(w) \/ CharAt(w, i) = "]"}))

\* the alternatives a declaration line with one arrow writes, in written
\* order, each with the template of the line and its atoms in written order
AlternativesOf(line) ==
  LET at == Min(ArrowsAt(line))
      left == Slice(line, 0, at)
      alts == split(SliceFrom(line, at + 4), "|")
  IN [k \in 1..Len(alts) |->
        Option(AtomKey(left),
               [i \in 1..Len(Words(alts[k])) |->
                  Conjunct(AtomName(Words(alts[k])[i]), AtomKey(Words(alts[k])[i]),
                           isupper(CharAt(Words(alts[k])[i], 0)))])]

LeftName(line) == AtomName(Slice(line, 0, Min(ArrowsAt(line))))

\* the alternatives the lines write for a left name, in line order
RECURSIVE AlternativesFor(_, _)
AlternativesFor(lines, name) ==
  IF Len(lines) = 0 THEN <<>>
  ELSE (IF LeftName(Head(lines)) = name THEN AlternativesOf(Head(lines)) ELSE <<>>)
         \o AlternativesFor(Tail(lines), name)

\* the table holds one Rule per left name of the lines, with the alternatives
\* the lines write for it
HoldsExactly(rs, lines) ==
  /\ \A i, j \in 1..Len(rs) : rs[i].lname = rs[j].lname => i = j
  /\ RuleNames(rs) = {LeftName(lines[i]) : i \in 1..Len(lines)}
  /\ \A i \in 1..Len(rs) : rs[i].options = AlternativesFor(lines, rs[i].lname)

\* the declaration lines of the text of a fromstring call
Declared == DeclarationsOf(split(call.words.text, "\n"))

\* the declaration lines in front of the first one without exactly one arrow
WellFormedPrefix(lines) ==
  SubSeq(lines, 1,
         Min({k \in 1..(Len(lines) + 1) :
                k = Len(lines) + 1 \/ ArrowCount(lines[k]) # 1}) - 1)

\* C12: loading a declaration line that does not contain exactly one ' -> '
\* arrow (none, or two or more) fails with the malformed-grammar error, the
\* Exception "Invalid grammar", and that line adds no rule and no alternative
\* to the rule table: the table holds what the lines in front of it declare
C12_MalformedLine ==
  (call.op = "fromstring" /\ WellFormedPrefix(Declared) # Declared) =>
    /\ result.exc = "Exception"
    /\ result.error.msg = "Invalid grammar"
    /\ HoldsExactly(rules, WellFormedPrefix(Declared))

\* a line with two arrows after two lines that declare rules
C12_Witness ==
  /\ call.op = "fromstring"
  /\ Len(Declared) = 3 /\ Len(WellFormedPrefix(Declared)) = 2
  /\ ArrowCount(Declared[3]) = 2
  /\ Len(rules) = 2
  /\ result.exc = "Exception"

\* C13: after loading any sequence of declaration lines, the rule table holds
\* exactly one Rule per distinct left name, and the alternatives of rule N
\* are the concatenation, in line order, of the '|'-separated alternatives of
\* the lines whose left name is N, each with the template of its own line and
\* its atoms in written order; V_GRASP["pick-up"] -> grab | grasp | pick
\* gives 3 alternatives, each with template "pick-up" and one terminal
C13_RuleTable ==
  /\ (call.op = "fromstring" /\ WellFormedPrefix(Declared) = Declared) =>
       /\ result.exc \in {"", "AssertionError"}
       /\ HoldsExactly(rules, Declared)
  /\ (call.op = "fromstring"
        /\ Declared = <<"V_GRASP[\"pick-up\"] -> grab | grasp | pick">>) =>
       rules = <<Rule("V_GRASP",
                      <<Option("\"pick-up\"", <<Conjunct("grab", "", FALSE)>>),
                        Option("\"pick-up\"", <<Conjunct("grasp", "", FALSE)>>),
                        Option("\"pick-up\"", <<Conjunct("pick", "", FALSE)>>)>>)>>

\* three lines for two left names: the rule of the name written twice holds
\* the alternatives of both of its lines, with two different templates
C13_Witness ==
  /\ call.op = "fromstring" /\ result.exc = ""
  /\ Len(Declared) = 3 /\ Len(rules) = 2
  /\ \E i \in 1..2 : /\ Len(rules[i].options) = 3
                     /\ rules[i].options[1].lsemantic # rules[i].options[3].lsemantic

----------------------------------------------------------------------------
(* Calls that share the parser                                             *)

\* what a call ended as, but for the identity of its Trees
Observable(outcome) == [outcome EXCEPT !.root = NoTree]

\* the calls of the callers t and u are the same call, and both ended
SameCallEnded(t, u) ==
  /\ callers[t].status = "done" /\ callers[u].status = "done"
  /\ callers[t].op = callers[u].op
  /\ callers[t].target = callers[u].target
  /\ callers[t].words = callers[u].words

\* C14: two parse_raw calls on the same loaded table with the same target
\* and the same tokens end the same way, whatever other calls ran before
\* them or between their steps
C14_Deterministic ==
  \A t, u \in Callers :
    (SameCallEnded(t, u) /\ callers[t].op = "parse_raw") =>
      Observable(callers[t].outcome) = Observable(callers[u].outcome)

\* the same sentence matched by two callers, each with Trees of its own
C14_Witness ==
  /\ SameCallEnded(1, 2) /\ callers[1].op = "parse_raw"
  /\ callers[1].words = List(<<"a", "b", "c">>)
  /\ callers[1].outcome.exc = "" /\ callers[1].outcome.value.str = "l"
  /\ callers[1].outcome.root # callers[2].outcome.root

\* C15: a step of a parse_raw, parse or next_word call, and the start and
\* the end of one, leaves the rule table and the function table as they
\* were, whether the call returns a value, fails to match or raises
C15_TablesUnchanged ==
  [][callers' # callers => (rules' = rules /\ functions' = functions)]_vars

\* a match that raised and a completion that returned, on the table as loaded
C15_Witness ==
  /\ callers[1].status = "done" /\ callers[1].op = "parse_raw"
  /\ callers[1].outcome.exc = "GrammarError"
  /\ callers[2].status = "done" /\ callers[2].op = "next_word"
  /\ callers[2].outcome.next_words = <<"a">>
  /\ rules = TableOf(Dangling)

\* what the call of the caller c ends as when it runs alone, start to end
Alone(self, c) ==
  CASE c.op = "parse_raw" ->
         LET r == parse_raw(self, c.target, c.words)
         IN Ended(r.exc, r.value, r.error, <<>>, NoTree)
    [] c.op = "parse" ->
         LET r == parse(self, c.target, c.words)
         IN Ended(r.exc, r.value, r.error, <<>>, NoTree)
    [] c.op = "next_word" ->
         LET r == next_word(self, c.target, c.words.list)
         IN Ended(r.exc, PyNone, NoError, r.next_words, NoTree)

\* the Trees the caller t can reach from its locals or its result
Reach(t) == Reachable(heap, Held(heap, callers[t]))

\* C16: whatever the order of the steps of the calls of the callers that
\* share a loaded parser, a Tree constructed by the call of one caller is
\* not reachable from the Trees of another, and a call that has ended has
\* ended as it does when it runs alone
C16_Isolated ==
  /\ \A t, u \in Callers : t # u => Reach(t) \cap callers[u].made = {}
  /\ \A t \in Callers :
       callers[t].status = "done" =>
         Observable(callers[t].outcome) = Alone(Self, callers[t])

\* a match has ended while a completion on the same rule is under way, each
\* with Trees of its own
C16_Witness ==
  /\ callers[1].status = "done" /\ callers[1].op = "parse_raw"
  /\ callers[1].outcome.exc = "" /\ Cardinality(Reach(1)) > 1
  /\ callers[2].status = "running" /\ callers[2].op = "next_word"
  /\ callers[2].target = callers[1].target
  /\ Cardinality(Reach(2)) > 1 /\ Len(callers[2].stack) > 2

----------------------------------------------------------------------------
(* Recursion                                                               *)

\* the rules that can reach themselves before a token is consumed
LeftRecursive(rs) ==
  {name \in RuleNames(rs) : name \in LeftClosure(rs, LeftCalls(rs, name))}

\* the rules whose first alternative starts with the rule itself: a match
\* or a completion of such a rule recurses before it reads a token
SelfFirst(rs) ==
  {name \in RuleNames(rs) :
     /\ Len(GetRule(rs, name).options) > 0
     /\ Len(GetRule(rs, name).options[1].conjuncts) > 0
     /\ GetRule(rs, name).options[1].conjuncts[1].is_variable
     /\ GetRule(rs, name).options[1].conjuncts[1].name = name}

\* C17: a match on a grammar in which a rule reaches itself without
\* consuming a token is ended by a limit of the parser, with its grammar
\* error, and never by the recursion limit of the interpreter
C17_GuardedRecursion ==
  call.op \in {"parse_raw", "parse"} =>
    /\ result.exc # "RecursionError"
    /\ call.target \in SelfFirst(rules) => result.exc = "GrammarError"

\* what the code does: no call outside a left-recursive grammar ends with
\* RecursionError, and every match of a rule that starts with itself does
C17_InterpreterLimit ==
  call.op \in {"parse_raw", "parse"} =>
    /\ result.exc = "RecursionError" => LeftRecursive(rules) # {}
    /\ call.target \in SelfFirst(rules) => result.exc = "RecursionError"

\* parse_raw("L", ["y"]) on "L -> L x | y" ends with RecursionError, though
\* y is a sentence of L
C17_RecursionError ==
  /\ call = Call("parse_raw", "L", List(<<"y">>))
  /\ rules = TableOf(LeftRec)
  /\ Derivable(rules, "L", <<"y">>)
  /\ result.exc = "RecursionError"

----------------------------------------------------------------------------
(* References that do not resolve                                          *)

\* The search the matcher makes, as a search over lists of atoms: what is
\* left of the grammar is matched against what is left of the tokens, and a
\* sub-rule or function atom is replaced by the atoms of each of its
\* candidates in turn.  The search ends with "match", with "fail", with
\* "error" at the first atom met whose rule or function does not exist, or
\* with "abort" at the first atom met that has no candidates or no name
RECURSIVE Search(_, _, _, _)
RECURSIVE SearchOptions(_, _, _, _, _, _)
Search(rs, fs, atoms, tokens) ==
  IF Len(atoms) = 0 THEN (IF Len(tokens) = 0 THEN "match" ELSE "fail")
  ELSE LET conj == Head(atoms)
       IN CASE conj.is_variable /\ ~HasRule(rs, conj.name) -> "error"
            [] conj.is_variable /\ HasRule(rs, conj.name) ->
                 SearchOptions(rs, fs, GetRule(rs, conj.name).options, 1,
                               Tail(atoms), tokens)
            [] ~conj.is_variable /\ CharAt(conj.name, 0) = "$"
                 /\ ~HasFunction(fs, SliceFrom(conj.name, 1)) -> "error"
            [] ~conj.is_variable /\ CharAt(conj.name, 0) = "$"
                 /\ HasFunction(fs, SliceFrom(conj.name, 1)) ->
                 SearchOptions(rs, fs,
                               ApplyFunction(GetFunction(fs, SliceFrom(conj.name, 1)),
                                             tokens),
                               1, Tail(atoms), tokens)
            [] ~conj.is_variable /\ Len(conj.name) = 0 -> "abort"
            [] ~conj.is_variable /\ Len(conj.name) > 0
                 /\ CharAt(conj.name, 0) # "$" ->
                 IF Len(tokens) > 0 /\ tokens[1] = conj.name
                 THEN Search(rs, fs, Tail(atoms), Tail(tokens))
                 ELSE "fail"

SearchOptions(rs, fs, options, k, rest, tokens) ==
  IF Len(options) = 0 THEN "abort"
  ELSE IF k > Len(options) THEN "fail"
  ELSE LET r == Search(rs, fs, options[k].conjuncts \o rest, tokens)
       IN IF r = "fail"
          THEN SearchOptions(rs, fs, options, k + 1, rest, tokens)
          ELSE r

\* the search of parse_raw(target, words)
SearchTarget(rs, fs, target, words) ==
  SearchOptions(rs, fs, GetRule(rs, target).options, 1, <<>>, words)

\* C18: parse_raw raises GrammarError exactly when its search, candidate by
\* candidate in declared order, meets an atom whose rule or function does
\* not exist before a candidate has completed the match; when a candidate
\* completes the match first, parse_raw returns and raises nothing
C18_LazyReference ==
  (call.op = "parse_raw" /\ HasRule(rules, call.target)) =>
    /\ result.exc = "GrammarError"
         <=> SearchTarget(rules, functions, call.target, WordsOf(call.words)) = "error"
    /\ result.exc = ""
         <=> SearchTarget(rules, functions, call.target, WordsOf(call.words)) = "match"

\* T -> $f | a with f proposing a and then a reference to the missing rule
\* MISSING: "a" is matched by the first proposal and nothing is raised
C18_Witness ==
  /\ call = Call("parse_raw", "T", List(<<"a">>))
  /\ rules = TableOf(Dangling)
  /\ HasFunction(functions, "f") /\ GetFunction(functions, "f") = "dangling"
  /\ ~HasRule(rules, "MISSING")
  /\ result.exc = "" /\ result.value.str = "d"

\* the same grammar and function: "q" is not matched by the first proposal,
\* the second is tried and GrammarError is raised
C18_Raised ==
  /\ call = Call("parse_raw", "T", List(<<"q">>))
  /\ rules = TableOf(Dangling)
  /\ HasFunction(functions, "f") /\ GetFunction(functions, "f") = "dangling"
  /\ result.exc = "GrammarError"

----------------------------------------------------------------------------
(* Failure indices                                                         *)

\* C19: the index a failed match reports, and every index at which a branch
\* of it gave up, is at least 0 and at most the number of tokens; the index
\* that equals the number of tokens is reported as a word that is missing,
\* a smaller one as the word at that index failing to match
C19_FailureIndex ==
  (call.op = "parse_raw" /\ result.exc = "ParseError") =>
    LET words == WordsOf(call.words)
        i == result.error.word_index
    IN /\ 0 <= i /\ i <= Len(words)
       /\ \A j \in FailedAt(result) : 0 <= j /\ j <= Len(words)
       /\ i = Len(words) => result.error.msg = "is missing"
       /\ i < Len(words) =>
            /\ result.error.msg = "failed to match"
            /\ result.error.word = words[i + 1]

\* "a b" against T -> a b c: the word at index 2 is missing
C19_Witness ==
  /\ call = Call("parse_raw", "T", Str("a b"))
  /\ rules = TableOf(SingleRule)
  /\ result.exc = "ParseError"
  /\ result.error = [msg |-> "is missing", word_index |-> 2, word |-> ""]

\* "a q c" against T -> a b c: the word q at index 1 failed to match
C19_Unexpected ==
  /\ call = Call("parse_raw", "T", List(<<"a", "q", "c">>))
  /\ rules = TableOf(SingleRule)
  /\ result.exc = "ParseError"
  /\ result.error = [msg |-> "failed to match", word_index |-> 1, word |-> "q"]

----------------------------------------------------------------------------
(* The structure of the Trees                                              *)

\* the Trees installed, one after the other, in the slot that holds n (for
\* a root: the Trees made for the alternatives of the target)
Installed(hp, made, n) ==
  {m \in made \cap DOMAIN hp :
     /\ hp[m].parent = hp[n].parent
     /\ hp[m].parent_tree_idx = hp[n].parent_tree_idx}

\* the match of the caller c has ended with the Tree root: the Trees below
\* root are a derivation of the words from the target, each is the last one
\* installed in its slot, and the value returned is read from them alone
Derivation(hp, c, root) ==
  /\ hp[root].parent = NoTree
  /\ hp[root].option \in OptionsOf(rules, c.target)
  /\ WellFormed(rules, hp, root)
  /\ Yield(hp, root, 1) = WordsOf(c.words)
  /\ \A n \in Below(hp, root) : n = Max(Installed(hp, c.made, n))
  /\ c.outcome.value =
       Decoded(get_semantics([a \in Below(hp, root) |-> hp[a]], root))

\* C20: in every state of a match, a Tree has one slot for each atom of its
\* alternative, a slot that is filled holds a Tree whose parent is that Tree
\* and whose parent index is the index of the slot, and the slot of a
\* terminal is empty; once a match has succeeded, the Trees reachable from
\* its root are the derivation that matched, none of them is a Tree of an
\* attempt that failed, and the semantics are read from them alone
C20_TreeStructure ==
  /\ \A a \in DOMAIN heap :
       /\ Len(heap[a].subtrees) = Len(heap[a].option.conjuncts)
       /\ \A i \in 1..Len(heap[a].subtrees) :
            /\ ~IsSlot(heap[a].option.conjuncts[i]) => heap[a].subtrees[i] = NoTree
            /\ heap[a].subtrees[i] # NoTree =>
                 /\ heap[a].subtrees[i] \in DOMAIN heap
                 /\ heap[heap[a].subtrees[i]].parent = a
                 /\ heap[heap[a].subtrees[i]].parent_tree_idx = i - 1
  /\ \A t \in Callers :
       (/\ callers[t].status = "done" /\ callers[t].op \in {"parse_raw", "parse"}
        /\ callers[t].outcome.exc = "" /\ callers[t].outcome.value # EmptyDict) =>
         /\ callers[t].outcome.root \in DOMAIN heap
         /\ Derivation(heap, callers[t], callers[t].outcome.root)

\* "a b c" matched by T -> A c with A -> a b, after A -> a failed in the
\* same slot: the Tree of the attempt that failed is not below the root
C20_Witness ==
  /\ callers[1].status = "done" /\ callers[1].op = "parse_raw"
  /\ callers[1].words = List(<<"a", "b", "c">>) /\ callers[1].target = "T"
  /\ callers[1].outcome.exc = ""
  /\ Cardinality(Below(heap, callers[1].outcome.root)) = 2
  /\ Cardinality(callers[1].made) = 3
  /\ callers[2].status = "running" /\ callers[2].made # {}

----------------------------------------------------------------------------
(* Termination                                                             *)

\* a parse_raw or next_word call on a rule of a grammar of terminals and
\* sub-rule references in which no rule reaches itself before a token is
\* consumed, sub-rules that match the empty sequence counted as consuming
\* nothing
C21_Case ==
  /\ call.op \in {"parse_raw", "next_word"}
  /\ HasRule(rules, call.target) /\ MatchClass(rules)

\* C21: on every such grammar and every token list, parse_raw and next_word
\* come to an end, and they end by returning a result or by raising
\* ParseError
C21_Terminates == C21_Case => result.exc \in {"", "ParseError"}

\* what the code does: on every such grammar no call runs into the
\* recursion limit, parse_raw returns or raises ParseError, and next_word
\* returns unless the grammar has an empty alternative
C21_EndsBelowLimit ==
  C21_Case =>
    /\ result.exc # "RecursionError"
    /\ call.op = "parse_raw" => result.exc \in {"", "ParseError"}
    /\ (call.op = "next_word" /\ NoEmptyAlternative(rules)) => result.exc = ""
    /\ call.op = "next_word" => result.exc \in {"", "IndexError"}

\* next_word("A", ["p"]) on D -> | r; A -> p D ends, with IndexError
C21_EndsWithIndexError ==
  /\ call = Call("next_word", "A", List(<<"p">>))
  /\ rules = TableOf(EmptyAlt) /\ MatchClass(rules)
  /\ result.exc = "IndexError"

\* N -> D N x | y with D -> | r: N reaches itself through D, which matches
\* the empty sequence, and parse_raw("N", ["y"]) runs into the limit
C21_NullableLeftRecursion ==
  /\ call = Call("parse_raw", "N", List(<<"y">>))
  /\ rules = TableOf(NullableLeft)
  /\ ~NoLeftRecursion(rules) /\ SelfFirst(rules) = {}
  /\ result.exc = "RecursionError"

----------------------------------------------------------------------------
(* Completion over empty alternatives                                      *)

\* a next_word call of grammar_parser on a rule of a grammar of terminals
\* and sub-rule references without left recursion that has an alternative
\* with zero atoms
C22_Case ==
  /\ impl = "grammar_parser" /\ call.op = "next_word"
  /\ HasRule(rules, call.target) /\ MatchClass(rules)
  /\ ~NoEmptyAlternative(rules)

\* C22: next_word continues at the parent's next atom when it instantiates
\* an alternative with zero atoms: it never raises on a grammar that
\* contains an empty alternative, and for T -> D x with D -> | r,
\* next_word("T", []) is {"r", "x"}
C22_SkipsEmptyAlternative ==
  /\ C22_Case => result.exc = ""
  /\ (C22_Case /\ rules = TableOf(EmptyFirst)
        /\ call.target = "T" /\ call.words.list = <<>>)
       => ToSet(result.next_words) = {"r", "x"}

\* next_word("T", []) on T -> D x with D -> | r raises IndexError, where
\* "r" and "x" are the tokens a sentence of T can start with
C22_IndexError ==
  /\ C22_Case /\ rules = TableOf(EmptyFirst)
  /\ call.target = "T" /\ call.words.list = <<>>
  /\ Viable(rules, "T", <<>>) = {"r", "x"}
  /\ result.exc = "IndexError" /\ result.next_words = <<>>

\* what the code does: next_word raises IndexError exactly when the walk
\* instantiates an alternative with zero atoms, and returns the tokens found
\* before that point otherwise; the matcher reads the same alternatives
\* without an error
C22_RaisesAtEmptyAlternative ==
  /\ C22_Case => result.exc \in {"", "IndexError"}
  /\ (C22_Case /\ call.words.list = <<>>
        /\ \E o \in ToSet(GetRule(rules, call.target).options) :
             Len(o.conjuncts) = 0)
       => result.exc = "IndexError"
  /\ (call.op = "parse_raw" /\ HasRule(rules, call.target)
        /\ MatchClass(rules))
       => (result.exc = "" <=> Derivable(rules, call.target, WordsOf(call.words)))

\* the matcher on the same grammar: parse_raw("T", ["x"]) matches D with
\* its empty alternative
C22_MatcherSkips ==
  /\ call = Call("parse_raw", "T", List(<<"x">>))
  /\ rules = TableOf(EmptyFirst)
  /\ result.exc = ""

----------------------------------------------------------------------------
(* Functions that propose nothing                                          *)

\* a parse_raw call on a rule, with the function f registered and returning
\* no alternative, whose search meets no missing rule or function
C23_Case ==
  /\ call.op = "parse_raw" /\ HasRule(rules, call.target)
  /\ HasFunction(functions, "f") /\ GetFunction(functions, "f") = "nothing"
  /\ SearchTarget(rules, functions, call.target, WordsOf(call.words)) # "error"

\* C23: a function reference that returns zero alternatives is a slot that
\* failed: the match goes on with the remaining candidates and ends by
\* returning or, when none matches, by raising ParseError, never with
\* another error; for T -> $f | a, parse_raw("T", words) returns exactly
\* for the words "a"
C23_EmptyExpansionFails ==
  /\ C23_Case => result.exc \in {"", "ParseError"}
  /\ (C23_Case /\ rules = TableOf(Dangling) /\ call.target = "T")
       => (result.exc = "" <=> WordsOf(call.words) = <<"a">>)

\* parse_raw("T", ["a"]) on T -> $f | a with f returning no alternative
\* ends with AssertionError, though the second alternative matches "a"
C23_AssertionError ==
  /\ C23_Case /\ rules = TableOf(Dangling)
  /\ call = Call("parse_raw", "T", List(<<"a">>))
  /\ result.exc = "AssertionError"

\* what the code does: a match ends with AssertionError exactly when its
\* search meets a function atom for which the function returns nothing
\* before a candidate has completed the match
C23_AbortsAtEmptyExpansion ==
  C23_Case =>
    (result.exc = "AssertionError"
       <=> SearchTarget(rules, functions, call.target, WordsOf(call.words)) = "abort")

----------------------------------------------------------------------------
(* Atoms without a semantics key                                           *)

\* the text of a node when only the atoms that have a key take part: the
\* keys of its first n atoms are replaced by the texts of the alternatives
\* in their slots, and an atom with an empty key is passed over
RECURSIVE KeyedText(_, _, _)
KeyedText(trees, tree, n) ==
  IF n = 0 THEN trees[tree].option.lsemantic
  ELSE IF trees[tree].subtrees[n] = NoTree
          \/ trees[tree].option.conjuncts[n].rsemantic = ""
  THEN KeyedText(trees, tree, n - 1)
  ELSE replace(KeyedText(trees, tree, n - 1),
               trees[tree].option.conjuncts[n].rsemantic,
               KeyedText(trees, trees[tree].subtrees[n],
                         Len(trees[trees[tree].subtrees[n]].subtrees)))

\* the filled slots below a node whose atom has no key
KeylessSlots(trees, tree) ==
  UNION {{<<n, i>> : i \in {j \in 1..Len(trees[n].subtrees) :
                              /\ trees[n].subtrees[j] # NoTree
                              /\ trees[n].option.conjuncts[j].rsemantic = ""}} :
           n \in Below(trees, tree)}

\* a parse_raw call that matched
C24_Case == call.op = "parse_raw" /\ result.exc = "" /\ result.root # NoTree

\* C24: a sub-rule atom without a semantics key contributes nothing to the
\* semantics of its parent, whatever the text of the child matched in its
\* slot: get_semantics returns the text the atoms with a key compose; for
\* T["t"] -> A with A["a"] -> p the text of "p" is "t"
C24_KeylessContributesNothing ==
  /\ C24_Case =>
       get_semantics(result.trees, result.root)
         = KeyedText(result.trees, result.root,
                     Len(result.trees[result.root].subtrees))
  /\ (C24_Case /\ rules = TableOf(KeylessChild) /\ call.target = "T")
       => get_semantics(result.trees, result.root) = "\"t\""

\* parse_raw("T", ["p"]) on T["t"] -> A with A["a"] -> p: the text "a" of
\* the child is put before, between and after the characters of "t"
C24_ChildTextInserted ==
  /\ C24_Case /\ rules = TableOf(KeylessChild)
  /\ call = Call("parse_raw", "T", List(<<"p">>))
  /\ KeylessSlots(result.trees, result.root) # {}
  /\ get_semantics(result.trees, result.root)
       = "\"a\"\"\"a\"t\"a\"\"\"a\""

\* what the code does: the atoms without a key contribute nothing when the
\* text of every child in such a slot is empty, as in T[X] -> A[X] | B[X],
\* A["a"] -> p D, B["b"] -> q E, D -> | r, E -> r |
C24_EmptyChildContributesNothing ==
  (C24_Case
     /\ \A s \in KeylessSlots(result.trees, result.root) :
          get_semantics(result.trees, result.trees[s[1]].subtrees[s[2]]) = "")
    => get_semantics(result.trees, result.root)
         = KeyedText(result.trees, result.root,
                     Len(result.trees[result.root].subtrees))

\* "p r" matched by the grammar above: D is matched by r in a slot without
\* a key, and the value is "a"
C24_EmptyChild ==
  /\ C24_Case /\ rules = TableOf(EmptySubrules)
  /\ call = Call("parse_raw", "T", List(<<"p", "r">>))
  /\ KeylessSlots(result.trees, result.root) # {}
  /\ result.value = PyValue("str", "", "a")

====
